---- MODULE Spec2Model ----
(***************************************************************************)
(* EcoGTasks: the task domain engine (access control, status/completion   *)
(* reconciliation, time ledger, audit history) as a state machine over    *)
(* the database tables.  One action per route handler; every handler is   *)
(* one transaction (a single db.session.commit()).                        *)
(*                                                                         *)
(* sessions holds the database sessions of the requests in flight: the    *)
(* task each has loaded and not yet committed.  A request processed alone  *)
(* loads and commits in one step and leaves sessions as it was.            *)
(*                                                                         *)
(* Conventions: Python None of an id or date column is NoneVal, None of a  *)
(* string column is Null.  Hours are counted in tenths of an hour, so the  *)
(* form's 0.1 is 1 and 24 is 240.                                          *)
(***************************************************************************)
EXTENDS Integers, Sequences, FiniteSets, TLC

VARIABLES users, projects, project_members, tasks, history, time_logs,
          comments, resp, sessions

dbvars == <<users, projects, project_members, tasks, history, time_logs, comments>>
vars == <<users, projects, project_members, tasks, history, time_logs, comments, resp, sessions>>

(* ---------------------------- bounds ---------------------------------- *)
MaxTasks == 1
MaxHistory == 2
MaxTimeLogs == 1
MaxComments == 1
MaxSMHistory == 3
MaxLedgerLogs == 3
MaxHistoryRows == 4

(* ------------------------- values and enums --------------------------- *)
NoneVal == 0
Null == "NULL"

ADMIN == "admin"
MANAGER == "manager"
EMPLOYEE == "employee"

TODO == "To Do"
IN_PROGRESS == "In Progress"
BLOCKED == "Blocked"
DONE == "Done"
TaskStatus == {TODO, IN_PROGRESS, BLOCKED, DONE}

LOW == "Low"
MEDIUM == "Medium"
HIGH == "High"
TaskPriority == {LOW, MEDIUM, HIGH}

today == 10

(* str() of the values the handlers format *)
str_percent(p) == ToString(p) \o "%"
str_hours(h) == ToString(h \div 10) \o "." \o ToString(h % 10) \o "h"

(* ------------------------------ models -------------------------------- *)
is_admin(u) == users[u].role = ADMIN
is_manager(u) == users[u].role = MANAGER

can_access_project_NoOwner(u, p) ==
    IF is_admin(u) THEN TRUE
    ELSE <<u, p>> \in project_members

can_access_project(u, p) ==
    IF is_admin(u) THEN TRUE
    ELSE <<u, p>> \in project_members \/ projects[p].created_by = u

RECURSIVE SumHours(_)
SumHours(rows) ==
    IF rows = <<>> THEN 0
    ELSE Head(rows).hours_spent + SumHours(Tail(rows))

(* db.func.sum over the selected rows: NULL when no row is selected *)
func_sum(rows) == IF rows = <<>> THEN NoneVal ELSE SumHours(rows)

logged_hours_AllTasks(t) ==
    LET total == func_sum(time_logs)
    IN  IF total # NoneVal THEN total ELSE 0

logged_hours(t) ==
    LET total == func_sum(SelectSeq(time_logs, LAMBDA l : l.task_id = t))
    IN  IF total # NoneVal THEN total ELSE 0

Max(a, b) == IF a >= b THEN a ELSE b

remaining_hours_NoClamp(t) ==
    (IF tasks[t].estimated_hours # NoneVal THEN tasks[t].estimated_hours ELSE 0)
        - logged_hours(t)

remaining_hours(t) ==
    Max(0, (IF tasks[t].estimated_hours # NoneVal THEN tasks[t].estimated_hours ELSE 0)
              - logged_hours(t))

(* ------------------- Python floats (IEEE-754 binary64) ---------------- *)
(* hours_spent and estimated_hours are Float columns.  A positive double   *)
(* is [bits, exp]: 53 bits, most significant first, valued as the integer  *)
(* they spell times 2^exp; every operation rounds to nearest, ties to even.*)
(* Long integers are handled in limbs of 12 bits, most significant first.  *)
Zeros(n) == [i \in 1 .. n |-> 0]

(* the w-bit binary numeral of v *)
BitsOfNat(v, w) == [i \in 1 .. w |-> (v \div 2^(w - i)) % 2]

RECURSIVE NatOfBits(_)
NatOfBits(b) ==
    IF Len(b) = 0 THEN 0
    ELSE IF Len(b) = 1 THEN b[1]
    ELSE LET h == Len(b) \div 2
         IN  NatOfBits(SubSeq(b, 1, h)) * 2^(Len(b) - h) + NatOfBits(SubSeq(b, h + 1, Len(b)))

StripZeros(b) ==
    IF \A i \in 1 .. Len(b) : b[i] = 0 THEN <<>>
    ELSE LET k == CHOOSE i \in 1 .. Len(b) : b[i] = 1 /\ \A j \in 1 .. (i - 1) : b[j] = 0
         IN  SubSeq(b, k, Len(b))

Limbs(b) ==
    LET m == (Len(b) + 11) \div 12
        p == Zeros(12 * m - Len(b)) \o b
    IN  [j \in 1 .. m |-> NatOfBits(SubSeq(p, 12 * (j - 1) + 1, 12 * j))]

BitsOfLimbs(L) ==
    [i \in 1 .. 12 * Len(L) |-> (L[(i - 1) \div 12 + 1] \div 2^(11 - ((i - 1) % 12))) % 2]

(* b + 1: the last 0 becomes 1 and the 1s after it become 0 *)
Increment(b) ==
    IF \A i \in 1 .. Len(b) : b[i] = 1 THEN <<1>> \o Zeros(Len(b))
    ELSE LET k == CHOOSE i \in 1 .. Len(b) :
                      b[i] = 0 /\ \A j \in (i + 1) .. Len(b) : b[j] = 1
         IN  [i \in 1 .. Len(b) |-> IF i < k THEN b[i] ELSE IF i = k THEN 1 ELSE 0]

fl_zero == [bits |-> <<>>, exp |-> 0]

(* the double nearest to (b as an integer) * 2^e, plus a nonzero tail below
   the last bit when sticky *)
fl_round(b, e, sticky) ==
    IF b = <<>> THEN fl_zero
    ELSE IF Len(b) <= 53 THEN [bits |-> b \o Zeros(53 - Len(b)), exp |-> e - (53 - Len(b))]
    ELSE LET kept == SubSeq(b, 1, 53)
             rest == sticky \/ \E i \in 55 .. Len(b) : b[i] = 1
             up == b[54] = 1 /\ (rest \/ kept[53] = 1)
             r == IF up THEN Increment(kept) ELSE kept
             e2 == e + (Len(b) - 53)
         IN  IF Len(r) = 54 THEN [bits |-> SubSeq(r, 1, 53), exp |-> e2 + 1]
             ELSE [bits |-> r, exp |-> e2]

(* quotient and remainder of the limbs L by a small divisor n, from limb j on *)
RECURSIVE DivLimbs(_, _, _, _, _)
DivLimbs(L, j, n, rem, acc) ==
    IF j > Len(L) THEN [q |-> acc, rem |-> rem]
    ELSE LET v == rem * 4096 + L[j]
         IN  DivLimbs(L, j + 1, n, v % n, Append(acc, v \div n))

(* the bits d extended by 76 zero bits and divided by n: enough quotient
   bits to round whenever n is below 2^20 *)
LongDiv(d, n) ==
    LET r == DivLimbs(Limbs(d \o Zeros(76)), 1, n, 0, <<>>)
    IN  [q |-> StripZeros(BitsOfLimbs(r.q)), rem |-> r.rem]

fl_div_nat(x, n) ==
    IF x = fl_zero THEN fl_zero
    ELSE LET r == LongDiv(x.bits, n)
         IN  fl_round(r.q, x.exp - 76, r.rem # 0)

(* the limbs of L * c, from the last limb j down *)
RECURSIVE MulLimbs(_, _, _, _, _)
MulLimbs(L, j, c, carry, acc) ==
    IF j = 0 THEN <<carry>> \o acc
    ELSE LET v == L[j] * c + carry
         IN  MulLimbs(L, j - 1, c, v \div 4096, <<v % 4096>> \o acc)

fl_mul_nat(x, c) ==
    IF x = fl_zero THEN fl_zero
    ELSE LET L == Limbs(x.bits)
         IN  fl_round(StripZeros(BitsOfLimbs(MulLimbs(L, Len(L), c, 0, <<>>))), x.exp, FALSE)

(* the limbs of A + B, two sequences of one length, from the last limb j down *)
RECURSIVE AddLimbs(_, _, _, _, _)
AddLimbs(A, B, j, carry, acc) ==
    IF j = 0 THEN <<carry>> \o acc
    ELSE LET v == A[j] + B[j] + carry
         IN  AddLimbs(A, B, j - 1, v \div 4096, <<v % 4096>> \o acc)

fl_add(x, y) ==
    IF x = fl_zero THEN y
    ELSE IF y = fl_zero THEN x
    ELSE LET e == IF x.exp <= y.exp THEN x.exp ELSE y.exp
             n == Max(53 + x.exp - e, 53 + y.exp - e)
             A == Limbs(Zeros(n - 53 - x.exp + e) \o x.bits \o Zeros(x.exp - e))
             B == Limbs(Zeros(n - 53 - y.exp + e) \o y.bits \o Zeros(y.exp - e))
         IN  fl_round(StripZeros(BitsOfLimbs(AddLimbs(A, B, Len(A), 0, <<>>))), e, FALSE)

(* int(x): truncation toward zero *)
fl_int(x) ==
    IF x = fl_zero \/ 53 + x.exp <= 0 THEN 0
    ELSE IF x.exp >= 0 THEN NatOfBits(x.bits \o Zeros(x.exp))
    ELSE NatOfBits(SubSeq(x.bits, 1, 53 + x.exp))

(* float(Decimal): the double nearest to h tenths of an hour *)
float_hours(h) ==
    IF h = 0 THEN fl_zero
    ELSE LET r == LongDiv(StripZeros(BitsOfNat(h, 31)), 10)
         IN  fl_round(r.q, 0 - 76, r.rem # 0)

(* SUM(hours_spent) over the rows in table order, in double arithmetic *)
RECURSIVE float_sum(_, _)
float_sum(rows, acc) ==
    IF rows = <<>> THEN acc
    ELSE float_sum(Tail(rows), fl_add(acc, float_hours(Head(rows).hours_spent)))

Min(a, b) == IF a <= b THEN a ELSE b

(* Task.calculated_completion; the estimates of the model are whole hours,
   which a double holds exactly, so the division is by estimate / 10 *)
calculated_completion(t) ==
    LET estimate == tasks[t].estimated_hours
    IN  IF estimate # NoneVal /\ estimate > 0
        THEN LET logged == float_sum(SelectSeq(time_logs, LAMBDA l : l.task_id = t), fl_zero)
                 percentage == fl_mul_nat(fl_div_nat(logged, estimate \div 10), 100)
             IN  Min(100, fl_int(percentage))
        ELSE IF tasks[t].completion_percentage # NoneVal
             THEN tasks[t].completion_percentage ELSE 0

(* ---------------------------- decorators ------------------------------ *)
task_access_required_AnyManager(u, t) ==
    \/ is_admin(u)
    \/ is_manager(u)
    \/ (tasks[t].assigned_to = u \/ tasks[t].created_by = u)
    \/ can_access_project(u, tasks[t].project_id)

task_access_required(u, t) ==
    \/ is_admin(u)
    \/ (is_manager(u) /\ can_access_project(u, tasks[t].project_id))
    \/ (tasks[t].assigned_to = u \/ tasks[t].created_by = u)
    \/ can_access_project(u, tasks[t].project_id)

(* --------------------------- form validators -------------------------- *)
(* DataRequired passes on a truthy field.data: None and 0 both fail *)
DataRequired(data) == ~(data = NoneVal \/ data = 0)

NumberRange_NoMax(min, max, data) == data >= min

NumberRange(min, max, data) == data >= min /\ data <= max

(* UpdateProgressForm.validate(): the first failing validator's message *)
UpdateProgressForm(p) ==
    IF ~DataRequired(p) THEN "This field is required."
    ELSE IF ~NumberRange(0, 100, p) THEN "Percentage must be between 0 and 100"
    ELSE ""

TimeLogForm(h) ==
    IF ~DataRequired(h) THEN "Hours spent is required"
    ELSE IF ~NumberRange(1, 240, h) THEN "Hours must be between 0.1 and 24"
    ELSE ""

active_user_choices == {NoneVal} \cup {u \in DOMAIN users : users[u].is_active}

ReassignTaskForm(a) ==
    IF a \notin active_user_choices THEN "Not a valid choice."
    ELSE IF ~DataRequired(a) THEN "This field is required."
    ELSE ""

CommentForm(len) ==
    IF len > 2000 THEN "Comment must be less than 2000 characters" ELSE ""

(* ------------------------------ history ------------------------------- *)
log_task_history(t, u, action, field_name, old_value, new_value) ==
    [task_id |-> t, user_id |-> u, action |-> action, field_name |-> field_name,
     old_value |-> IF old_value \notin {Null, ""} THEN old_value ELSE Null,
     new_value |-> IF new_value \notin {Null, ""} THEN new_value ELSE Null]

TaskHistory(t) == SelectSeq(history, LAMBDA h : h.task_id = t)

(* ------------------------------ responses ----------------------------- *)
Response(op, code, flash, error) ==
    /\ resp' = [op |-> op, code |-> code, flash |-> flash, error |-> error]
    /\ UNCHANGED sessions

abort(op, code) == Response(op, code, "danger", "") /\ UNCHANGED dbvars

(* ----------------------------- TaskForm ------------------------------- *)
project_choices(u) ==
    IF is_admin(u) THEN {p \in DOMAIN projects : projects[p].is_active}
    ELSE {p \in DOMAIN projects : <<u, p>> \in project_members \/ projects[p].created_by = u}

TaskForm(form, u) ==
    IF form.title = "" THEN "Title is required"
    ELSE IF Len(form.title) > 200 THEN "Title must be less than 200 characters"
    ELSE IF form.status \notin TaskStatus THEN "Not a valid choice."
    ELSE IF form.priority \notin TaskPriority THEN "Not a valid choice."
    ELSE IF form.assigned_to \notin active_user_choices THEN "Not a valid choice."
    ELSE IF form.project_id \notin project_choices(u) THEN "Not a valid choice."
    ELSE IF ~DataRequired(form.project_id) THEN "This field is required."
    ELSE IF form.due_date # NoneVal /\ form.due_date < today THEN "Due date cannot be in the past."
    ELSE IF form.estimated_hours # NoneVal /\ ~NumberRange(0, 99990, form.estimated_hours)
         THEN "Hours must be between 0 and 9999"
    ELSE IF form.completion_percentage # NoneVal /\ ~NumberRange(0, 100, form.completion_percentage)
         THEN "Percentage must be between 0 and 100"
    ELSE ""

(* --------------------------- reconciliation --------------------------- *)
status_completion_NoTodoReset(status, completion_percentage) ==
    IF status = DONE THEN 100 ELSE completion_percentage

(* update_status: the completion percentage stored for the new status *)
status_completion(status, completion_percentage) ==
    IF status = DONE THEN 100
    ELSE IF status = TODO THEN 0
    ELSE completion_percentage

progress_status_NoAutoDone(new_percentage, status) ==
    IF new_percentage > 0 /\ new_percentage < 100 /\ status = TODO THEN IN_PROGRESS
    ELSE status

progress_status_AnyNotDone(new_percentage, status) ==
    IF new_percentage = 100 /\ status # DONE THEN DONE
    ELSE IF new_percentage > 0 /\ new_percentage < 100 /\ status # DONE THEN IN_PROGRESS
    ELSE status

(* update_progress: the status stored for the new percentage *)
progress_status(new_percentage, status) ==
    IF new_percentage = 100 /\ status # DONE THEN DONE
    ELSE IF new_percentage > 0 /\ new_percentage < 100 /\ status = TODO THEN IN_PROGRESS
    ELSE status

username(a) == IF a # NoneVal THEN users[a].username ELSE "Unassigned"

next_task_id == IF DOMAIN tasks = {} THEN 1
                ELSE (CHOOSE m \in DOMAIN tasks : \A t \in DOMAIN tasks : t <= m) + 1

(* ------------------------------ handlers ------------------------------ *)
create_task(u, form) ==
    IF project_choices(u) = {} THEN
        Response("create_task", 302, "warning", "") /\ UNCHANGED dbvars
    ELSE IF TaskForm(form, u) # "" THEN
        Response("create_task", 200, "", TaskForm(form, u)) /\ UNCHANGED dbvars
    ELSE
        LET t == next_task_id
            task == [title |-> form.title, description |-> form.description,
                     status |-> form.status, priority |-> form.priority,
                     assigned_to |-> IF form.assigned_to # 0 THEN form.assigned_to ELSE NoneVal,
                     created_by |-> u, project_id |-> form.project_id,
                     due_date |-> form.due_date,
                     estimated_hours |-> 0, completion_percentage |-> 0]
        IN  /\ tasks' = (t :> task) @@ tasks
            /\ history' = Append(history, log_task_history(t, u, "created", Null, Null, Null))
            /\ Response("create_task", 302, "success", "")
            /\ UNCHANGED <<users, projects, project_members, time_logs, comments>>

edit_task_SyncsCompletion(u, t, form) ==
    IF t \notin DOMAIN tasks THEN abort("edit_task", 404)
    ELSE IF ~task_access_required(u, t) THEN abort("edit_task", 403)
    ELSE IF TaskForm(form, u) # "" THEN
        Response("edit_task", 200, "", TaskForm(form, u)) /\ UNCHANGED dbvars
    ELSE
        LET task == tasks[t]
            new_assigned == IF form.assigned_to # 0 THEN form.assigned_to ELSE NoneVal
            changes ==
                (IF task.title # form.title
                 THEN <<log_task_history(t, u, "updated", "title", task.title, form.title)>>
                 ELSE <<>>)
             \o (IF task.status # form.status
                 THEN <<log_task_history(t, u, "updated", "status", task.status, form.status)>>
                 ELSE <<>>)
             \o (IF task.priority # form.priority
                 THEN <<log_task_history(t, u, "updated", "priority", task.priority, form.priority)>>
                 ELSE <<>>)
             \o (IF task.assigned_to # new_assigned
                 THEN <<log_task_history(t, u, "updated", "assigned_to",
                                         username(task.assigned_to), username(form.assigned_to))>>
                 ELSE <<>>)
        IN  /\ tasks' = [tasks EXCEPT ![t] =
                   [task EXCEPT !.title = form.title, !.description = form.description,
                                !.status = form.status, !.priority = form.priority,
                                !.assigned_to = new_assigned,
                                !.project_id = form.project_id,
                                !.due_date = form.due_date,
                                !.completion_percentage = status_completion(form.status, @)]]
            /\ history' = history \o changes
            /\ Response("edit_task", 302, "success", "")
            /\ UNCHANGED <<users, projects, project_members, time_logs, comments>>
edit_task(u, t, form) ==
    IF t \notin DOMAIN tasks THEN abort("edit_task", 404)
    ELSE IF ~task_access_required(u, t) THEN abort("edit_task", 403)
    ELSE IF TaskForm(form, u) # "" THEN
        Response("edit_task", 200, "", TaskForm(form, u)) /\ UNCHANGED dbvars
    ELSE
        LET task == tasks[t]
            new_assigned == IF form.assigned_to # 0 THEN form.assigned_to ELSE NoneVal
            changes ==
                (IF task.title # form.title
                 THEN <<log_task_history(t, u, "updated", "title", task.title, form.title)>>
                 ELSE <<>>)
             \o (IF task.status # form.status
                 THEN <<log_task_history(t, u, "updated", "status", task.status, form.status)>>
                 ELSE <<>>)
             \o (IF task.priority # form.priority
                 THEN <<log_task_history(t, u, "updated", "priority", task.priority, form.priority)>>
                 ELSE <<>>)
             \o (IF task.assigned_to # new_assigned
                 THEN <<log_task_history(t, u, "updated", "assigned_to",
                                         username(task.assigned_to), username(form.assigned_to))>>
                 ELSE <<>>)
        IN  /\ tasks' = [tasks EXCEPT ![t] =
                   [task EXCEPT !.title = form.title, !.description = form.description,
                                !.status = form.status, !.priority = form.priority,
                                !.assigned_to = new_assigned,
                                !.project_id = form.project_id,
                                !.due_date = form.due_date]]
            /\ history' = history \o changes
            /\ Response("edit_task", 302, "success", "")
            /\ UNCHANGED <<users, projects, project_members, time_logs, comments>>

delete_task_AnyAccess(u, t) ==
    IF t \notin DOMAIN tasks THEN abort("delete_task", 404)
    ELSE IF ~task_access_required(u, t) THEN abort("delete_task", 403)
    ELSE
        /\ tasks' = [x \in DOMAIN tasks \ {t} |-> tasks[x]]
        /\ history' = SelectSeq(history, LAMBDA h : h.task_id # t)
        /\ time_logs' = SelectSeq(time_logs, LAMBDA l : l.task_id # t)
        /\ comments' = SelectSeq(comments, LAMBDA c : c.task_id # t)
        /\ Response("delete_task", 302, "success", "")
        /\ UNCHANGED <<users, projects, project_members>>

delete_task_AllHistory(u, t) ==
    IF t \notin DOMAIN tasks THEN abort("delete_task", 404)
    ELSE IF ~task_access_required(u, t) THEN abort("delete_task", 403)
    ELSE IF ~(is_admin(u) \/ is_manager(u) \/ tasks[t].created_by = u) THEN
        abort("delete_task", 403)
    ELSE
        /\ tasks' = [x \in DOMAIN tasks \ {t} |-> tasks[x]]
        /\ history' = <<>>
        /\ time_logs' = SelectSeq(time_logs, LAMBDA l : l.task_id # t)
        /\ comments' = SelectSeq(comments, LAMBDA c : c.task_id # t)
        /\ Response("delete_task", 302, "success", "")
        /\ UNCHANGED <<users, projects, project_members>>

delete_task(u, t) ==
    IF t \notin DOMAIN tasks THEN abort("delete_task", 404)
    ELSE IF ~task_access_required(u, t) THEN abort("delete_task", 403)
    ELSE IF ~(is_admin(u) \/ is_manager(u) \/ tasks[t].created_by = u) THEN
        abort("delete_task", 403)
    ELSE
        /\ tasks' = [x \in DOMAIN tasks \ {t} |-> tasks[x]]
        /\ history' = SelectSeq(history, LAMBDA h : h.task_id # t)
        /\ time_logs' = SelectSeq(time_logs, LAMBDA l : l.task_id # t)
        /\ comments' = SelectSeq(comments, LAMBDA c : c.task_id # t)
        /\ Response("delete_task", 302, "success", "")
        /\ UNCHANGED <<users, projects, project_members>>

add_comment(u, t, len) ==
    IF t \notin DOMAIN tasks THEN abort("add_comment", 404)
    ELSE IF ~task_access_required(u, t) THEN abort("add_comment", 403)
    ELSE IF CommentForm(len) # "" THEN
        Response("add_comment", 302, "danger", CommentForm(len)) /\ UNCHANGED dbvars
    ELSE
        /\ comments' = Append(comments, [task_id |-> t, user_id |-> u, content |-> len])
        /\ history' = Append(history, log_task_history(t, u, "commented", Null, Null, Null))
        /\ Response("add_comment", 302, "success", "")
        /\ UNCHANGED <<users, projects, project_members, tasks, time_logs>>

reassign_task(u, t, a) ==
    IF t \notin DOMAIN tasks THEN abort("reassign_task", 404)
    ELSE IF ~task_access_required(u, t) THEN abort("reassign_task", 403)
    ELSE IF ReassignTaskForm(a) # "" THEN
        Response("reassign_task", 302, "danger", ReassignTaskForm(a)) /\ UNCHANGED dbvars
    ELSE
        LET old_assignee == username(tasks[t].assigned_to)
            new_assignee_id == IF a # 0 THEN a ELSE NoneVal
            new_assignee == username(new_assignee_id)
        IN  /\ tasks' = [tasks EXCEPT ![t].assigned_to = new_assignee_id]
            /\ history' = Append(history, log_task_history(t, u, "reassigned", "assigned_to",
                                                            old_assignee, new_assignee))
            /\ Response("reassign_task", 302, "success", "")
            /\ UNCHANGED <<users, projects, project_members, time_logs, comments>>

view_task(u, t) ==
    IF t \notin DOMAIN tasks THEN abort("view_task", 404)
    ELSE IF ~task_access_required(u, t) THEN abort("view_task", 403)
    ELSE Response("view_task", 200, "", "") /\ UNCHANGED dbvars

update_status_AnyStatus(u, t, status) ==
    IF t \notin DOMAIN tasks THEN abort("update_status", 404)
    ELSE IF ~task_access_required(u, t) THEN abort("update_status", 403)
    ELSE
        LET old_status == tasks[t].status
        IN  /\ tasks' = [tasks EXCEPT ![t].status = status,
                                      ![t].completion_percentage = status_completion(status, @)]
            /\ history' = Append(history, log_task_history(t, u, "status_changed", "status",
                                                            old_status, status))
            /\ Response("update_status", 302, "success", "")
            /\ UNCHANGED <<users, projects, project_members, time_logs, comments>>

update_status_SkipsSameStatus(u, t, status) ==
    IF t \notin DOMAIN tasks THEN abort("update_status", 404)
    ELSE IF ~task_access_required(u, t) THEN abort("update_status", 403)
    ELSE IF status \notin TaskStatus THEN
        Response("update_status", 302, "danger", "Invalid status.") /\ UNCHANGED dbvars
    ELSE
        LET old_status == tasks[t].status
        IN  /\ tasks' = [tasks EXCEPT ![t].status = status,
                                      ![t].completion_percentage = status_completion(status, @)]
            /\ history' = IF old_status = status THEN history
                          ELSE Append(history, log_task_history(t, u, "status_changed", "status",
                                                                old_status, status))
            /\ Response("update_status", 302, "success", "")
            /\ UNCHANGED <<users, projects, project_members, time_logs, comments>>

update_status_NoHistory(u, t, status) ==
    IF t \notin DOMAIN tasks THEN abort("update_status", 404)
    ELSE IF ~task_access_required(u, t) THEN abort("update_status", 403)
    ELSE IF status \notin TaskStatus THEN
        Response("update_status", 302, "danger", "Invalid status.") /\ UNCHANGED dbvars
    ELSE
        /\ tasks' = [tasks EXCEPT ![t].status = status,
                                  ![t].completion_percentage = status_completion(status, @)]
        /\ Response("update_status", 302, "success", "")
        /\ UNCHANGED <<users, projects, project_members, history, time_logs, comments>>

update_status(u, t, status) ==
    IF t \notin DOMAIN tasks THEN abort("update_status", 404)
    ELSE IF ~task_access_required(u, t) THEN abort("update_status", 403)
    ELSE IF status \notin TaskStatus THEN
        Response("update_status", 302, "danger", "Invalid status.") /\ UNCHANGED dbvars
    ELSE
        LET old_status == tasks[t].status
        IN  /\ tasks' = [tasks EXCEPT ![t].status = status,
                                      ![t].completion_percentage = status_completion(status, @)]
            /\ history' = Append(history, log_task_history(t, u, "status_changed", "status",
                                                            old_status, status))
            /\ Response("update_status", 302, "success", "")
            /\ UNCHANGED <<users, projects, project_members, time_logs, comments>>

log_time_NoHistory(u, t, h) ==
    IF t \notin DOMAIN tasks THEN abort("log_time", 404)
    ELSE IF ~task_access_required(u, t) THEN abort("log_time", 403)
    ELSE IF TimeLogForm(h) # "" THEN
        Response("log_time", 302, "danger", TimeLogForm(h)) /\ UNCHANGED dbvars
    ELSE
        /\ time_logs' = Append(time_logs, [task_id |-> t, user_id |-> u, hours_spent |-> h])
        /\ Response("log_time", 302, "success", "")
        /\ UNCHANGED <<users, projects, project_members, tasks, history, comments>>

log_time(u, t, h) ==
    IF t \notin DOMAIN tasks THEN abort("log_time", 404)
    ELSE IF ~task_access_required(u, t) THEN abort("log_time", 403)
    ELSE IF TimeLogForm(h) # "" THEN
        Response("log_time", 302, "danger", TimeLogForm(h)) /\ UNCHANGED dbvars
    ELSE
        /\ time_logs' = Append(time_logs, [task_id |-> t, user_id |-> u, hours_spent |-> h])
        /\ history' = Append(history, log_task_history(t, u, "logged_time", "hours",
                                                        Null, str_hours(h)))
        /\ Response("log_time", 302, "success", "")
        /\ UNCHANGED <<users, projects, project_members, tasks, comments>>

update_progress(u, t, p) ==
    IF t \notin DOMAIN tasks THEN abort("update_progress", 404)
    ELSE IF ~task_access_required(u, t) THEN abort("update_progress", 403)
    ELSE IF UpdateProgressForm(p) # "" THEN
        Response("update_progress", 302, "danger", UpdateProgressForm(p)) /\ UNCHANGED dbvars
    ELSE
        LET old_percentage == IF tasks[t].completion_percentage # NoneVal
                              THEN tasks[t].completion_percentage ELSE 0
            new_percentage == p
            old_status == tasks[t].status
            new_status == progress_status(new_percentage, old_status)
        IN  /\ tasks' = [tasks EXCEPT ![t].completion_percentage = new_percentage,
                                      ![t].status = new_status]
            /\ history' = history
                 \o (IF new_status # old_status
                     THEN <<log_task_history(t, u, "status_changed", "status", old_status, new_status)>>
                     ELSE <<>>)
                 \o <<log_task_history(t, u, "progress_updated", "completion",
                                       str_percent(old_percentage), str_percent(new_percentage))>>
            /\ Response("update_progress", 302, "success", "")
            /\ UNCHANGED <<users, projects, project_members, time_logs, comments>>

delete_project_KeepsTasks(u, p) ==
    IF p \notin DOMAIN projects THEN abort("delete_project", 404)
    ELSE IF ~can_access_project(u, p) THEN abort("delete_project", 403)
    ELSE IF ~is_admin(u) THEN abort("delete_project", 403)
    ELSE
        /\ projects' = [x \in DOMAIN projects \ {p} |-> projects[x]]
        /\ project_members' = {m \in project_members : m[2] # p}
        /\ Response("delete_project", 302, "success", "")
        /\ UNCHANGED <<users, tasks, history, time_logs, comments>>

(* projects.delete_project: the project's tasks go with it (cascade
   'all, delete-orphan'), and with them their comments, history and time
   logs; the membership rows of the project are removed *)
delete_project(u, p) ==
    IF p \notin DOMAIN projects THEN abort("delete_project", 404)
    ELSE IF ~can_access_project(u, p) THEN abort("delete_project", 403)
    ELSE IF ~is_admin(u) THEN abort("delete_project", 403)
    ELSE
        LET gone == {t \in DOMAIN tasks : tasks[t].project_id = p}
        IN  /\ projects' = [x \in DOMAIN projects \ {p} |-> projects[x]]
            /\ project_members' = {m \in project_members : m[2] # p}
            /\ tasks' = [x \in DOMAIN tasks \ gone |-> tasks[x]]
            /\ history' = SelectSeq(history, LAMBDA h : h.task_id \notin gone)
            /\ time_logs' = SelectSeq(time_logs, LAMBDA l : l.task_id \notin gone)
            /\ comments' = SelectSeq(comments, LAMBDA c : c.task_id \notin gone)
            /\ Response("delete_project", 302, "success", "")
            /\ UNCHANGED users

ProjectForm(name) ==
    IF name = "" THEN "Project name is required"
    ELSE IF Len(name) > 100 THEN "Project name must be less than 100 characters"
    ELSE ""

next_project_id == IF DOMAIN projects = {} THEN 1
                   ELSE (CHOOSE m \in DOMAIN projects : \A p \in DOMAIN projects : p <= m) + 1

(* projects.create_project: the project row is committed, then the creator
   is appended to its members and committed again; no other table is
   touched between the two commits *)
create_project(u, name) ==
    IF ~(is_admin(u) \/ is_manager(u)) THEN abort("create_project", 403)
    ELSE IF ProjectForm(name) # "" THEN
        Response("create_project", 200, "", ProjectForm(name)) /\ UNCHANGED dbvars
    ELSE
        LET p == next_project_id
        IN  /\ projects' = (p :> [created_by |-> u, is_active |-> TRUE]) @@ projects
            /\ project_members' = project_members \cup {<<u, p>>}
            /\ Response("create_project", 302, "success", "")
            /\ UNCHANGED <<users, tasks, history, time_logs, comments>>

(* ------------------------- admin and members --------------------------- *)
UserRole == {ADMIN, MANAGER, EMPLOYEE}

(* flask_login: a request carries a user when that user has logged in
   (auth.login admits only approved, active accounts with their password)
   and the row still loads; UserMixin.is_authenticated is the is_active
   column of the row *)
is_authenticated(u) ==
    u \in DOMAIN users /\ users[u].is_approved /\ users[u].is_active

unauthorized(op) == Response(op, 302, "warning", "") /\ UNCHANGED dbvars

(* the rows whose NOT NULL foreign key names user x: the unit of work sets
   them to NULL when x is deleted and the commit fails *)
referenced(x) ==
    \/ \E p \in DOMAIN projects : projects[p].created_by = x
    \/ \E t \in DOMAIN tasks : tasks[t].created_by = x
    \/ \E i \in 1 .. Len(history) : history[i].user_id = x
    \/ \E i \in 1 .. Len(time_logs) : time_logs[i].user_id = x
    \/ \E i \in 1 .. Len(comments) : comments[i].user_id = x

(* db.session.delete(user): the membership rows go, the tasks assigned to
   the user lose their assignee *)
delete_user_row(op, x) ==
    IF referenced(x) THEN Response(op, 500, "", "IntegrityError") /\ UNCHANGED dbvars
    ELSE /\ users' = [y \in DOMAIN users \ {x} |-> users[y]]
         /\ project_members' = {m \in project_members : m[1] # x}
         /\ tasks' = [t \in DOMAIN tasks |->
                          IF tasks[t].assigned_to = x
                          THEN [tasks[t] EXCEPT !.assigned_to = NoneVal] ELSE tasks[t]]
         /\ Response(op, 302, "success", "")
         /\ UNCHANGED <<projects, history, time_logs, comments>>

approve_user(u, x) ==
    IF ~is_authenticated(u) THEN unauthorized("approve_user")
    ELSE IF ~is_admin(u) THEN abort("approve_user", 403)
    ELSE IF x \notin DOMAIN users THEN abort("approve_user", 404)
    ELSE IF users[x].is_approved THEN
        Response("approve_user", 302, "info", "") /\ UNCHANGED dbvars
    ELSE
        /\ users' = [users EXCEPT ![x].is_approved = TRUE]
        /\ Response("approve_user", 302, "success", "")
        /\ UNCHANGED <<projects, project_members, tasks, history, time_logs, comments>>

reject_user(u, x) ==
    IF ~is_authenticated(u) THEN unauthorized("reject_user")
    ELSE IF ~is_admin(u) THEN abort("reject_user", 403)
    ELSE IF x \notin DOMAIN users THEN abort("reject_user", 404)
    ELSE IF users[x].is_approved THEN
        Response("reject_user", 302, "danger", "Cannot reject an already approved user.")
            /\ UNCHANGED dbvars
    ELSE delete_user_row("reject_user", x)

toggle_user_status_AnyUser(u, x) ==
    IF ~is_authenticated(u) THEN unauthorized("toggle_user_status")
    ELSE IF ~is_admin(u) THEN abort("toggle_user_status", 403)
    ELSE IF x \notin DOMAIN users THEN abort("toggle_user_status", 404)
    ELSE
        /\ users' = [users EXCEPT ![x].is_active = ~@]
        /\ Response("toggle_user_status", 302, "success", "")
        /\ UNCHANGED <<projects, project_members, tasks, history, time_logs, comments>>

toggle_user_status(u, x) ==
    IF ~is_authenticated(u) THEN unauthorized("toggle_user_status")
    ELSE IF ~is_admin(u) THEN abort("toggle_user_status", 403)
    ELSE IF x \notin DOMAIN users THEN abort("toggle_user_status", 404)
    ELSE IF x = u THEN
        Response("toggle_user_status", 302, "danger", "You cannot deactivate your own account.")
            /\ UNCHANGED dbvars
    ELSE
        /\ users' = [users EXCEPT ![x].is_active = ~@]
        /\ Response("toggle_user_status", 302, "success", "")
        /\ UNCHANGED <<projects, project_members, tasks, history, time_logs, comments>>

change_user_role(u, x, new_role) ==
    IF ~is_authenticated(u) THEN unauthorized("change_user_role")
    ELSE IF ~is_admin(u) THEN abort("change_user_role", 403)
    ELSE IF x \notin DOMAIN users THEN abort("change_user_role", 404)
    ELSE IF new_role \notin UserRole THEN
        Response("change_user_role", 302, "danger", "Invalid role specified.") /\ UNCHANGED dbvars
    ELSE IF x = u THEN
        Response("change_user_role", 302, "danger", "You cannot change your own role.")
            /\ UNCHANGED dbvars
    ELSE
        /\ users' = [users EXCEPT ![x].role = new_role]
        /\ Response("change_user_role", 302, "success", "")
        /\ UNCHANGED <<projects, project_members, tasks, history, time_logs, comments>>

delete_user(u, x) ==
    IF ~is_authenticated(u) THEN unauthorized("delete_user")
    ELSE IF ~is_admin(u) THEN abort("delete_user", 403)
    ELSE IF x \notin DOMAIN users THEN abort("delete_user", 404)
    ELSE IF x = u THEN
        Response("delete_user", 302, "danger", "You cannot delete your own account.")
            /\ UNCHANGED dbvars
    ELSE delete_user_row("delete_user", x)

ProjectMemberForm(x) ==
    IF x \notin {y \in DOMAIN users : users[y].is_active} THEN "Not a valid choice."
    ELSE IF ~DataRequired(x) THEN "This field is required."
    ELSE ""

add_member(u, p, x) ==
    IF ~is_authenticated(u) THEN unauthorized("add_member")
    ELSE IF p \notin DOMAIN projects THEN abort("add_member", 404)
    ELSE IF ~can_access_project(u, p) THEN abort("add_member", 403)
    ELSE IF ~(is_admin(u) \/ is_manager(u) \/ projects[p].created_by = u) THEN
        abort("add_member", 403)
    ELSE IF ProjectMemberForm(x) # "" THEN
        Response("add_member", 302, "", ProjectMemberForm(x)) /\ UNCHANGED dbvars
    ELSE IF <<x, p>> \notin project_members THEN
        /\ project_members' = project_members \cup {<<x, p>>}
        /\ Response("add_member", 302, "success", "")
        /\ UNCHANGED <<users, projects, tasks, history, time_logs, comments>>
    ELSE Response("add_member", 302, "warning", "") /\ UNCHANGED dbvars

remove_member_AnyMember(u, p, x) ==
    IF ~is_authenticated(u) THEN unauthorized("remove_member")
    ELSE IF p \notin DOMAIN projects THEN abort("remove_member", 404)
    ELSE IF ~can_access_project(u, p) THEN abort("remove_member", 403)
    ELSE IF ~(is_admin(u) \/ is_manager(u) \/ projects[p].created_by = u) THEN
        abort("remove_member", 403)
    ELSE IF x \notin DOMAIN users THEN abort("remove_member", 404)
    ELSE IF <<x, p>> \in project_members THEN
        /\ project_members' = project_members \ {<<x, p>>}
        /\ Response("remove_member", 302, "success", "")
        /\ UNCHANGED <<users, projects, tasks, history, time_logs, comments>>
    ELSE Response("remove_member", 302, "warning", "") /\ UNCHANGED dbvars

remove_member(u, p, x) ==
    IF ~is_authenticated(u) THEN unauthorized("remove_member")
    ELSE IF p \notin DOMAIN projects THEN abort("remove_member", 404)
    ELSE IF ~can_access_project(u, p) THEN abort("remove_member", 403)
    ELSE IF ~(is_admin(u) \/ is_manager(u) \/ projects[p].created_by = u) THEN
        abort("remove_member", 403)
    ELSE IF x \notin DOMAIN users THEN abort("remove_member", 404)
    ELSE IF x = projects[p].created_by THEN
        Response("remove_member", 302, "danger", "Cannot remove the project owner.")
            /\ UNCHANGED dbvars
    ELSE IF <<x, p>> \in project_members THEN
        /\ project_members' = project_members \ {<<x, p>>}
        /\ Response("remove_member", 302, "success", "")
        /\ UNCHANGED <<users, projects, tasks, history, time_logs, comments>>
    ELSE Response("remove_member", 302, "warning", "") /\ UNCHANGED dbvars

(* ----------------------- overlapping requests ------------------------ *)
(* A request in flight: Task.query.get_or_404 has loaded the task into the  *)
(* request's session (the decorator loads it, the handler gets the same     *)
(* object from the identity map) and the handler has not yet committed.     *)
(* No row is locked and no version column is compared.                      *)
load_task(r, op, u, t, arg) ==
    /\ r \notin DOMAIN sessions
    /\ IF t \notin DOMAIN tasks THEN abort(op, 404)
       ELSE IF ~task_access_required(u, t) THEN abort(op, 403)
       ELSE /\ sessions' = (r :> [op |-> op, user |-> u, task_id |-> t, arg |-> arg,
                                  task |-> tasks[t]]) @@ sessions
            /\ UNCHANGED <<dbvars, resp>>

(* the request's input passes the handler's validation *)
request_valid(s) ==
    IF s.op = "update_status" THEN s.arg \in TaskStatus
    ELSE UpdateProgressForm(s.arg) = ""

(* the attributes the handler assigns on the loaded task, with the values *)
request_assigns(s) ==
    IF s.op = "update_status"
    THEN IF s.arg \in {DONE, TODO}
         THEN [status |-> s.arg,
               completion_percentage |-> status_completion(s.arg, s.task.completion_percentage)]
         ELSE [status |-> s.arg]
    ELSE IF progress_status(s.arg, s.task.status) # s.task.status
         THEN [completion_percentage |-> s.arg,
               status |-> progress_status(s.arg, s.task.status)]
         ELSE [completion_percentage |-> s.arg]

(* the history rows the handler adds to its session *)
request_rows(s) ==
    IF s.op = "update_status"
    THEN <<log_task_history(s.task_id, s.user, "status_changed", "status",
                            s.task.status, s.arg)>>
    ELSE (IF progress_status(s.arg, s.task.status) # s.task.status
          THEN <<log_task_history(s.task_id, s.user, "status_changed", "status",
                                  s.task.status, progress_status(s.arg, s.task.status))>>
          ELSE <<>>)
         \o <<log_task_history(s.task_id, s.user, "progress_updated", "completion",
                               str_percent(IF s.task.completion_percentage # NoneVal
                                           THEN s.task.completion_percentage ELSE 0),
                               str_percent(s.arg))>>

(* the UPDATE of the flush: it sets the columns whose assigned value differs
   from the loaded one and leaves every other column of the stored row *)
flush(s, row) ==
    [f \in DOMAIN row |->
        IF f \in DOMAIN request_assigns(s) /\ request_assigns(s)[f] # s.task[f]
        THEN request_assigns(s)[f] ELSE row[f]]

commit(r) ==
    /\ r \in DOMAIN sessions
    /\ LET s == sessions[r]
       IN  /\ sessions' = [x \in DOMAIN sessions \ {r} |-> sessions[x]]
           /\ IF ~request_valid(s)
              THEN /\ resp' = [op |-> s.op, code |-> 302, flash |-> "danger", error |-> "invalid"]
                   /\ UNCHANGED dbvars
              ELSE /\ tasks' = [tasks EXCEPT ![s.task_id] = flush(s, @)]
                   /\ history' = history \o request_rows(s)
                   /\ resp' = [op |-> s.op, code |-> 302, flash |-> "success", error |-> ""]
                   /\ UNCHANGED <<users, projects, project_members, time_logs, comments>>

(* ------------------------------ inputs -------------------------------- *)
UserIds == {1, 2, 3}
ProjectIds == {1, 2}
TaskIds == 1 .. MaxTasks
StatusInputs == {DONE, "Closed"}
ProgressInputs == {50, 150}
HoursInputs == {30}
CommentInputs == {5, 2001}
AssigneeInputs == {0, 3}

BaseForm == [title |-> "A", description |-> "d", status |-> TODO, priority |-> MEDIUM,
             assigned_to |-> 0, project_id |-> 1, due_date |-> NoneVal,
             estimated_hours |-> NoneVal, completion_percentage |-> 0]

TaskForms == {BaseForm,
              [BaseForm EXCEPT !.title = "B", !.status = DONE],
              [BaseForm EXCEPT !.project_id = 2]}

seed_users ==
       (1 :> [username |-> "admin", role |-> ADMIN, is_active |-> TRUE])
    @@ (2 :> [username |-> "manager", role |-> MANAGER, is_active |-> TRUE])
    @@ (3 :> [username |-> "employee", role |-> EMPLOYEE, is_active |-> TRUE])

seed_projects ==
       (1 :> [created_by |-> 2, is_active |-> TRUE])
    @@ (2 :> [created_by |-> 1, is_active |-> TRUE])

seed_members == {<<2, 1>>, <<3, 1>>, <<1, 2>>}

no_response == [op |-> "", code |-> 0, flash |-> "", error |-> ""]

(* a task row as the Task constructor and the column defaults leave it *)
Task(status, assigned_to, created_by, project_id, estimated_hours, completion_percentage) ==
    [title |-> "A", description |-> "d", status |-> status, priority |-> MEDIUM,
     assigned_to |-> assigned_to, created_by |-> created_by, project_id |-> project_id,
     due_date |-> NoneVal, estimated_hours |-> estimated_hours,
     completion_percentage |-> completion_percentage]

(* ------------- Spec: the eight task handlers on an empty task table ---- *)
Bounded ==
    /\ Len(history) <= MaxHistory
    /\ Len(time_logs) <= MaxTimeLogs
    /\ Len(comments) <= MaxComments
    /\ \A t \in DOMAIN tasks : t <= MaxTasks

Init ==
    /\ users = seed_users
    /\ projects = seed_projects
    /\ project_members = seed_members
    /\ tasks = <<>>
    /\ history = <<>>
    /\ time_logs = <<>>
    /\ comments = <<>>
    /\ resp = no_response
    /\ sessions = <<>>

CreateTask == \E u \in UserIds, form \in TaskForms : create_task(u, form) /\ Bounded'
EditTask == \E u \in UserIds, t \in TaskIds, form \in TaskForms : edit_task(u, t, form) /\ Bounded'
DeleteTask == \E u \in UserIds, t \in TaskIds : delete_task(u, t) /\ Bounded'
AddComment == \E u \in UserIds, t \in TaskIds, len \in CommentInputs : add_comment(u, t, len) /\ Bounded'
ReassignTask == \E u \in UserIds, t \in TaskIds, a \in AssigneeInputs : reassign_task(u, t, a) /\ Bounded'
UpdateStatus == \E u \in UserIds, t \in TaskIds, s \in StatusInputs : update_status(u, t, s) /\ Bounded'
LogTime == \E u \in UserIds, t \in TaskIds, h \in HoursInputs : log_time(u, t, h) /\ Bounded'
UpdateProgress == \E u \in UserIds, t \in TaskIds, p \in ProgressInputs : update_progress(u, t, p) /\ Bounded'

Next ==
    \/ CreateTask
    \/ EditTask
    \/ DeleteTask
    \/ AddComment
    \/ ReassignTask
    \/ UpdateStatus
    \/ LogTime
    \/ UpdateProgress

Spec == Init /\ [][Next]_vars

(* ---- SpecSM: status and progress requests on one existing task -------- *)
(* The task starts in any status with any stored percentage: every pair is *)
(* reachable (edit_task stores a status without touching the percentage,   *)
(* update_progress stores a percentage below 100 on a Done task).          *)
SMStatusInputs == TaskStatus \cup {"Closed"}
SMProgressInputs == {-1, 0, 1, 50, 100, 101, 150}
SMActors == {1, 3}
SMPercentages == {0, 50, 100}

InitSM ==
    /\ users = seed_users
    /\ projects = seed_projects
    /\ project_members = seed_members
    /\ \E s \in TaskStatus, c \in SMPercentages :
           tasks = (1 :> Task(s, NoneVal, 1, 1, 0, c))
    /\ history = <<log_task_history(1, 1, "created", Null, Null, Null)>>
    /\ time_logs = <<>>
    /\ comments = <<>>
    /\ resp = no_response
    /\ sessions = <<>>

BoundedSM == Len(history) <= MaxSMHistory

UpdateStatusSM ==
    \E u \in SMActors, t \in {1, 2}, s \in SMStatusInputs : update_status(u, t, s) /\ BoundedSM'
UpdateProgressSM ==
    \E u \in SMActors, t \in {1, 2}, p \in SMProgressInputs : update_progress(u, t, p) /\ BoundedSM'

NextSM ==
    \/ UpdateStatusSM
    \/ UpdateProgressSM

SpecSM == InitSM /\ [][NextSM]_vars

(* ---- SpecLedger: log_time requests on existing tasks with estimates --- *)
(* No route writes estimated_hours; the rows carry whatever the column     *)
(* holds (NULL, the default 0, or a positive estimate).                    *)
LedgerEstimates == {NoneVal, 40, 100}
LedgerHours == {0, 30, 40, 250}

InitLedger ==
    /\ users = seed_users
    /\ projects = seed_projects
    /\ project_members = seed_members
    /\ \E e1 \in LedgerEstimates, e2 \in LedgerEstimates :
           tasks = (1 :> Task(TODO, 3, 2, 1, e1, 0)) @@ (2 :> Task(TODO, NoneVal, 1, 2, e2, 0))
    /\ history = <<log_task_history(1, 2, "created", Null, Null, Null),
                   log_task_history(2, 1, "created", Null, Null, Null)>>
    /\ time_logs = <<>>
    /\ comments = <<>>
    /\ resp = no_response
    /\ sessions = <<>>

BoundedLedger == Len(time_logs) <= MaxLedgerLogs

LogTimeLedger ==
    \E u \in UserIds, t \in {1, 2, 3}, h \in LedgerHours : log_time(u, t, h) /\ BoundedLedger'

NextLedger == LogTimeLedger

SpecLedger == InitLedger /\ [][NextLedger]_vars

(* ---- SpecCompletion: log_time requests on one task, tenths of hours --- *)
CompletionEstimates == {NoneVal, 100}
CompletionPercentages == {0, 50}
CompletionHours == {7, 30, 40}

InitCompletion ==
    /\ users = seed_users
    /\ projects = seed_projects
    /\ project_members = seed_members
    /\ \E e \in CompletionEstimates, c \in CompletionPercentages :
           tasks = (1 :> Task(IN_PROGRESS, 3, 2, 1, e, c))
    /\ history = <<log_task_history(1, 2, "created", Null, Null, Null)>>
    /\ time_logs = <<>>
    /\ comments = <<>>
    /\ resp = no_response
    /\ sessions = <<>>

LogTimeCompletion ==
    \E u \in {2, 3}, h \in CompletionHours : log_time(u, 1, h) /\ BoundedLedger'

NextCompletion == LogTimeCompletion

SpecCompletion == InitCompletion /\ [][NextCompletion]_vars

(* ---- SpecBurndown: admin_dashboard requests over dated task rows ------ *)
(* A date is its day number, day 0 being 1 January 1970; the task rows of  *)
(* this specification carry the dates of created_at and updated_at.        *)
is_leap(y) == y % 4 = 0 /\ (y % 100 # 0 \/ y % 400 = 0)

days_in_month(y, m) ==
    IF m = 2 THEN (IF is_leap(y) THEN 29 ELSE 28)
    ELSE IF m \in {4, 6, 9, 11} THEN 30 ELSE 31

(* date(y, m, d) of the proleptic Gregorian calendar *)
days_from_civil(y, m, d) ==
    LET y2 == IF m <= 2 THEN y - 1 ELSE y
        era == y2 \div 400
        yoe == y2 - era * 400
        mp == IF m > 2 THEN m - 3 ELSE m + 9
        doy == (153 * mp + 2) \div 5 + d - 1
        doe == yoe * 365 + yoe \div 4 - yoe \div 100 + doy
    IN  era * 146097 + doe - 719468

civil_from_days(z) ==
    LET z2 == z + 719468
        era == z2 \div 146097
        doe == z2 - era * 146097
        yoe == (doe - doe \div 1460 + doe \div 36524 - doe \div 146096) \div 365
        doy == doe - (365 * yoe + yoe \div 4 - yoe \div 100)
        mp == (5 * doy + 2) \div 153
        m == IF mp < 10 THEN mp + 3 ELSE mp - 9
    IN  [year |-> yoe + era * 400 + (IF m <= 2 THEN 1 ELSE 0),
         month |-> m,
         day |-> doy - (153 * mp + 2) \div 5 + 1]

(* strftime('%b %d'): the month and the day of the month, without the year *)
strftime_b_d(z) == LET c == civil_from_days(z) IN <<c.month, c.day>>

(* the request argument is absent ("") or the text <<y, m, d>> of a date;
   strptime raises ValueError when the text names no day of the calendar *)
strptime_date(s, default) ==
    IF s = "" THEN default
    ELSE IF s[1] \in 1 .. 9999 /\ s[2] \in 1 .. 12 /\ s[3] \in 1 .. days_in_month(s[1], s[2])
         THEN days_from_civil(s[1], s[2], s[3])
    ELSE default

tasks_remaining(start_date, d) ==
    Cardinality({t \in DOMAIN tasks :
        /\ tasks[t].created_at >= start_date
        /\ tasks[t].created_at <= d
        /\ \/ tasks[t].status # DONE
           \/ tasks[t].status = DONE /\ tasks[t].updated_at > d})

tasks_completed_AnyCreation(start_date, d) ==
    Cardinality({t \in DOMAIN tasks :
        /\ tasks[t].status = DONE
        /\ tasks[t].updated_at <= d})

tasks_completed(start_date, d) ==
    Cardinality({t \in DOMAIN tasks :
        /\ tasks[t].created_at >= start_date
        /\ tasks[t].status = DONE
        /\ tasks[t].updated_at <= d})

burndown_point(start_date, d) ==
    [date |-> strftime_b_d(d),
     remaining |-> tasks_remaining(start_date, d),
     completed |-> tasks_completed(start_date, d)]

(* the while loop runs for current_date = start_date, start_date + step, ...
   up to end_date; the end date is appended when the last label differs *)
burndown_data(start_date, end_date) ==
    LET date_range_days == (end_date - start_date) + 1
        step == Max(1, date_range_days \div 30)
        n == (end_date - start_date) \div step + 1
        regular == [i \in 1 .. n |-> burndown_point(start_date, start_date + (i - 1) * step)]
    IN  IF regular # <<>> /\ regular[n].date # strftime_b_d(end_date)
        THEN Append(regular, burndown_point(start_date, end_date))
        ELSE regular

admin_dashboard(u, start_date_str, end_date_str) ==
    IF ~is_admin(u) THEN Response("admin_dashboard", 302, "", "") /\ UNCHANGED dbvars
    ELSE LET start_date == strptime_date(start_date_str, today - 30)
             parsed_end == strptime_date(end_date_str, today)
             end_date == IF parsed_end < start_date THEN start_date ELSE parsed_end
         IN  /\ resp' = [op |-> "admin_dashboard", code |-> 200, flash |-> "", error |-> "",
                         start_date |-> start_date, end_date |-> end_date,
                         burndown_data |-> burndown_data(start_date, end_date)]
             /\ UNCHANGED <<dbvars, sessions>>

StartDateInputs == {"", <<1970, 1, 1>>, <<1970, 1, 6>>, <<1993, 6, 8>>, <<1970, 2, 30>>}
EndDateInputs ==
    {"", <<1970, 1, 4>>, <<1970, 1, 10>>, <<1970, 1, 15>>, <<1970, 1, 31>>, <<1970, 2, 5>>,
     <<1970, 3, 3>>, <<2023, 6, 30>>}

DatedTask(status, created_at, updated_at) ==
    Task(status, NoneVal, 1, 1, NoneVal, 0) @@ [created_at |-> created_at, updated_at |-> updated_at]

InitBurndown ==
    /\ users = seed_users
    /\ projects = seed_projects
    /\ project_members = seed_members
    /\ \E s1 \in {TODO, DONE}, c1 \in {2, 8}, u1 \in {0, 3} :
           tasks = (1 :> DatedTask(s1, c1, c1 + u1)) @@ (2 :> DatedTask(IN_PROGRESS, 19500, 19500))
    /\ history = <<>>
    /\ time_logs = <<>>
    /\ comments = <<>>
    /\ resp = no_response
    /\ sessions = <<>>

AdminDashboard ==
    \E u \in UserIds, s \in StartDateInputs, e \in EndDateInputs : admin_dashboard(u, s, e)

NextBurndown == AdminDashboard

SpecBurndown == InitBurndown /\ [][NextBurndown]_vars

(* ---- SpecHistory: requests on two existing tasks, with deletions ------- *)
HistoryActors == {1, 3}
HistoryStatusInputs == {DONE}

InitHistory ==
    /\ users = seed_users
    /\ projects = seed_projects
    /\ project_members = seed_members
    /\ tasks = (1 :> Task(TODO, 3, 2, 1, NoneVal, 0)) @@ (2 :> Task(TODO, NoneVal, 1, 2, NoneVal, 0))
    /\ history = <<log_task_history(1, 2, "created", Null, Null, Null),
                   log_task_history(2, 1, "created", Null, Null, Null)>>
    /\ time_logs = <<>>
    /\ comments = <<>>
    /\ resp = no_response
    /\ sessions = <<>>

HistoryTaskIds == {1, 2, 3}
HistoryProgressInputs == {50, 150}

BoundedHistory ==
    /\ Len(history) <= MaxHistoryRows
    /\ DOMAIN tasks \subseteq HistoryTaskIds

CreateTaskHistory == \E u \in HistoryActors : create_task(u, BaseForm) /\ BoundedHistory'

UpdateProgressHistory ==
    \E u \in HistoryActors, t \in HistoryTaskIds, p \in HistoryProgressInputs :
        update_progress(u, t, p) /\ BoundedHistory'

UpdateStatusHistory ==
    \E u \in HistoryActors, t \in {1, 2}, s \in HistoryStatusInputs :
        update_status(u, t, s) /\ BoundedHistory'

DeleteTaskHistory == \E u \in HistoryActors, t \in HistoryTaskIds : delete_task(u, t)

DeleteProject == \E u \in HistoryActors, p \in ProjectIds : delete_project(u, p)

NextHistory ==
    \/ CreateTaskHistory
    \/ UpdateProgressHistory
    \/ UpdateStatusHistory
    \/ DeleteTaskHistory
    \/ DeleteProject

SpecHistory == InitHistory /\ [][NextHistory]_vars

(* ---- SpecEdit: edit_task requests on one existing task ----------------- *)
EditActors == {1, 3}
EditForms ==
    {BaseForm,
     [BaseForm EXCEPT !.title = "B"],
     [BaseForm EXCEPT !.status = DONE],
     [BaseForm EXCEPT !.priority = HIGH, !.assigned_to = 3],
     [BaseForm EXCEPT !.project_id = 2],
     [BaseForm EXCEPT !.due_date = 20],
     [BaseForm EXCEPT !.estimated_hours = 50],
     [BaseForm EXCEPT !.description = "e"],
     [BaseForm EXCEPT !.title = "", !.status = DONE]}

InitEdit ==
    /\ users = seed_users
    /\ projects = seed_projects
    /\ project_members = seed_members
    /\ \E s \in {TODO, IN_PROGRESS, DONE}, c \in SMPercentages :
           tasks = (1 :> Task(s, NoneVal, 1, 1, 0, c))
    /\ history = <<log_task_history(1, 1, "created", Null, Null, Null)>>
    /\ time_logs = <<>>
    /\ comments = <<>>
    /\ resp = no_response
    /\ sessions = <<>>

BoundedEdit == Len(history) <= MaxHistoryRows

EditTaskEdit ==
    \E u \in EditActors, t \in {1, 2}, form \in EditForms : edit_task(u, t, form) /\ BoundedEdit'

NextEdit == EditTaskEdit

SpecEdit == InitEdit /\ [][NextEdit]_vars

(* ---- SpecStatus: every route that stores a status, with bad inputs ---- *)
(* The status arrives as a URL segment (update_status) or as the value of   *)
(* the status select of the task form (create_task, edit_task); both may    *)
(* carry any text.                                                          *)
StatusTexts == {TODO, BLOCKED, DONE, "Closed", ""}
StatusForms == {[BaseForm EXCEPT !.status = s] : s \in {IN_PROGRESS, DONE, "Closed"}}
StatusProgressInputs == {50, 100}
StatusActors == {1}

InitStatus ==
    /\ users = seed_users
    /\ projects = seed_projects
    /\ project_members = seed_members
    /\ \E s \in TaskStatus, c \in {0, 50} :
           tasks = (1 :> Task(s, NoneVal, 1, 1, 0, c))
    /\ history = <<log_task_history(1, 1, "created", Null, Null, Null)>>
    /\ time_logs = <<>>
    /\ comments = <<>>
    /\ resp = no_response
    /\ sessions = <<>>

BoundedStatus == Len(history) <= MaxSMHistory /\ DOMAIN tasks \subseteq {1, 2}

UpdateStatusStatus ==
    \E u \in StatusActors, t \in {1, 2}, s \in StatusTexts : update_status(u, t, s) /\ BoundedStatus'
CreateTaskStatus ==
    \E u \in StatusActors, form \in StatusForms : create_task(u, form) /\ BoundedStatus'
EditTaskStatus ==
    \E u \in StatusActors, t \in {1, 2}, form \in StatusForms : edit_task(u, t, form) /\ BoundedStatus'
UpdateProgressStatus ==
    \E u \in StatusActors, t \in {1, 2}, p \in StatusProgressInputs :
        update_progress(u, t, p) /\ BoundedStatus'

NextStatus ==
    \/ UpdateStatusStatus
    \/ CreateTaskStatus
    \/ EditTaskStatus
    \/ UpdateProgressStatus

SpecStatus == InitStatus /\ [][NextStatus]_vars

(* ---- SpecTimeLog: log_time requests around the limits of the form ----- *)
TimeLogHours == {-5, 0, 1, 30, 240, 241}
TimeLogActors == {1, 3}

InitTimeLog ==
    /\ users = seed_users
    /\ projects = seed_projects
    /\ project_members = seed_members
    /\ tasks = (1 :> Task(IN_PROGRESS, 3, 2, 1, 0, 0))
    /\ history = <<log_task_history(1, 2, "created", Null, Null, Null)>>
    /\ time_logs = <<>>
    /\ comments = <<>>
    /\ resp = no_response
    /\ sessions = <<>>

LogTimeTimeLog ==
    \E u \in TimeLogActors, t \in {1, 2}, h \in TimeLogHours : log_time(u, t, h) /\ BoundedLedger'

NextTimeLog == LogTimeTimeLog

SpecTimeLog == InitTimeLog /\ [][NextTimeLog]_vars

(* ---- SpecCreate: create_task requests on an empty task table ---------- *)
CreateForms ==
    {BaseForm,
     [BaseForm EXCEPT !.completion_percentage = 50],
     [BaseForm EXCEPT !.status = DONE, !.completion_percentage = NoneVal],
     [BaseForm EXCEPT !.project_id = 2, !.assigned_to = 3],
     [BaseForm EXCEPT !.title = ""]}

BoundedCreate == Len(history) <= MaxHistory

CreateTaskCreate == \E u \in UserIds, form \in CreateForms : create_task(u, form) /\ BoundedCreate'

NextCreate == CreateTaskCreate

SpecCreate == Init /\ [][NextCreate]_vars

(* ---- SpecIntegrity: creations, edits and deletions of tasks, projects -- *)
IntegrityActors == {1}
IntegrityForms == {BaseForm, [BaseForm EXCEPT !.project_id = 2]}
IntegrityNames == {"P", ""}

BoundedIntegrity ==
    /\ Len(history) <= MaxHistoryRows
    /\ Len(comments) <= MaxComments
    /\ Len(time_logs) <= MaxTimeLogs
    /\ DOMAIN tasks \subseteq {1, 2, 3}
    /\ DOMAIN projects \subseteq {1, 2}

CreateTaskIntegrity ==
    \E u \in IntegrityActors, form \in IntegrityForms : create_task(u, form) /\ BoundedIntegrity'
EditTaskIntegrity ==
    \E u \in IntegrityActors, t \in {1, 2, 3}, form \in IntegrityForms :
        edit_task(u, t, form) /\ BoundedIntegrity'
AddCommentIntegrity ==
    \E u \in IntegrityActors, t \in {1, 2, 3} : add_comment(u, t, 5) /\ BoundedIntegrity'
LogTimeIntegrity ==
    \E u \in IntegrityActors, t \in {1, 2, 3} : log_time(u, t, 30) /\ BoundedIntegrity'
DeleteTaskIntegrity == \E u \in IntegrityActors, t \in {1, 2, 3} : delete_task(u, t)
DeleteProjectIntegrity == \E u \in IntegrityActors, p \in {1, 2, 3} : delete_project(u, p)
CreateProjectIntegrity ==
    \E u \in IntegrityActors, name \in IntegrityNames : create_project(u, name) /\ BoundedIntegrity'

NextIntegrity ==
    \/ CreateTaskIntegrity
    \/ EditTaskIntegrity
    \/ AddCommentIntegrity
    \/ LogTimeIntegrity
    \/ DeleteTaskIntegrity
    \/ DeleteProjectIntegrity
    \/ CreateProjectIntegrity

SpecIntegrity == InitHistory /\ [][NextIntegrity]_vars

(* ---- SpecAdmin: user administration and project membership ------------ *)
(* The seeded accounts are approved; account 4 has signed up and waits for  *)
(* approval.  The manager has created both projects and both tasks.         *)
AdminActors == {1, 2}
AdminTargets == {1, 2, 4}
MemberActors == {1, 2, 3}
RoleInputs == {ADMIN, EMPLOYEE, "root"}

InitAdmin ==
    /\ users = [u \in {1, 2, 3} |-> seed_users[u] @@ [is_approved |-> TRUE]]
            @@ (4 :> [username |-> "pending", role |-> EMPLOYEE, is_active |-> TRUE,
                      is_approved |-> FALSE])
    /\ projects = (1 :> [created_by |-> 2, is_active |-> TRUE])
               @@ (2 :> [created_by |-> 2, is_active |-> TRUE])
    /\ project_members = {<<2, 1>>, <<3, 1>>, <<2, 2>>}
    /\ tasks = (1 :> Task(TODO, 3, 2, 1, NoneVal, 0)) @@ (2 :> Task(TODO, 4, 2, 2, NoneVal, 0))
    /\ history = <<log_task_history(1, 2, "created", Null, Null, Null),
                   log_task_history(2, 2, "created", Null, Null, Null)>>
    /\ time_logs = <<>>
    /\ comments = <<>>
    /\ resp = no_response
    /\ sessions = <<>>

ApproveUser == \E u \in AdminActors : approve_user(u, 4)
RejectUser == \E u \in AdminActors, x \in AdminTargets : reject_user(u, x)
ToggleUserStatus == \E u \in AdminActors, x \in AdminTargets : toggle_user_status(u, x)
ChangeUserRole ==
    \E u \in AdminActors, x \in AdminTargets, r \in RoleInputs : change_user_role(u, x, r)
DeleteUser == \E u \in AdminActors, x \in AdminTargets : delete_user(u, x)
AddMember == \E u \in MemberActors : add_member(u, 1, 4)
RemoveMember == \E u \in MemberActors, x \in {2, 4} : remove_member(u, 1, x)

NextAdmin ==
    \/ ApproveUser
    \/ RejectUser
    \/ ToggleUserStatus
    \/ ChangeUserRole
    \/ DeleteUser
    \/ AddMember
    \/ RemoveMember

SpecAdmin == InitAdmin /\ [][NextAdmin]_vars

(* ---- SpecConcurrent: two requests on one task that may overlap -------- *)
RequestIds == {1, 2}
ConcurrentStatusInputs == {TODO, BLOCKED, DONE, "Closed"}
ConcurrentProgressInputs == {50, 100}

LoadForStatus ==
    \E r \in RequestIds, t \in {1, 2}, s \in ConcurrentStatusInputs :
        load_task(r, "update_status", 1, t, s)
LoadForProgress ==
    \E r \in RequestIds, t \in {1, 2}, p \in ConcurrentProgressInputs :
        load_task(r, "update_progress", 1, t, p)
Commit == \E r \in RequestIds : commit(r) /\ BoundedSM'

NextConcurrent ==
    \/ LoadForStatus
    \/ LoadForProgress
    \/ Commit

SpecConcurrent == InitSM /\ [][NextConcurrent]_vars

(* ---- SpecAccess: the access predicates over drawn users and rows ------ *)
InitAccess ==
    /\ users = seed_users
    /\ \E c1 \in UserIds, c2 \in {1, 2} :
           projects = (1 :> [created_by |-> c1, is_active |-> TRUE])
                   @@ (2 :> [created_by |-> c2, is_active |-> TRUE])
    /\ project_members \in SUBSET ({2, 3} \X ProjectIds)
    /\ \E a \in {NoneVal} \cup UserIds, c \in UserIds, p \in ProjectIds :
           tasks = (1 :> Task(TODO, a, c, p, 0, 0))
    /\ history = <<>>
    /\ time_logs = <<>>
    /\ comments = <<>>
    /\ resp = no_response
    /\ sessions = <<>>

ViewTask == \E u \in UserIds, t \in {1, 2} : view_task(u, t)

NextAccess == ViewTask

SpecAccess == InitAccess /\ [][NextAccess]_vars

(* ====================== properties of the handlers ===================== *)
Last(seq) == seq[Len(seq)]
Appended(n) == Len(history') = Len(history) + n /\ SubSeq(history', 1, Len(history)) = history

(* C1: in every reachable state every task's stored completion percentage
   is an integer in 0..100. *)
C1_CompletionInRange ==
    \A t \in DOMAIN tasks :
        tasks[t].completion_percentage \in 0 .. 100

C1_Witness ==
    /\ resp.op = "update_progress" /\ resp.flash = "success"
    /\ \E t \in DOMAIN tasks : tasks[t].completion_percentage = 50

(* C2: an accepted update_status(task, s) leaves the task with status s and
   completion 100 for Done, 0 for To Do, and the previous completion for
   In Progress and Blocked. *)
C2_SetStatus ==
    [][\A u \in SMActors, t \in DOMAIN tasks, s \in SMStatusInputs :
          (update_status(u, t, s) /\ resp'.flash = "success") =>
              /\ tasks'[t].status = s
              /\ tasks'[t].completion_percentage =
                     (IF s = DONE THEN 100
                      ELSE IF s = TODO THEN 0
                      ELSE tasks[t].completion_percentage)]_vars

C2_Witness ==
    /\ resp.op = "update_status" /\ resp.flash = "success"
    /\ Last(history).action = "status_changed"
    /\ Last(history).old_value = DONE /\ Last(history).new_value = TODO
    /\ tasks[1].status = TODO /\ tasks[1].completion_percentage = 0

(* C3: update_progress(task, 100) on a task that is not Done sets status
   Done and completion 100 and appends exactly two history entries to the
   task: status_changed (old status -> Done), then progress_updated. *)
C3_ProgressTo100 ==
    [][\A u \in SMActors, t \in DOMAIN tasks :
          (update_progress(u, t, 100) /\ resp'.flash = "success" /\ tasks[t].status # DONE) =>
              /\ tasks'[t].status = DONE
              /\ tasks'[t].completion_percentage = 100
              /\ Appended(2)
              /\ LET e1 == history'[Len(history) + 1]
                     e2 == history'[Len(history) + 2]
                 IN  /\ e1.task_id = t /\ e1.action = "status_changed"
                     /\ e1.old_value = tasks[t].status /\ e1.new_value = DONE
                     /\ e2.task_id = t /\ e2.action = "progress_updated"]_vars

C3_Witness ==
    /\ resp.op = "update_progress" /\ resp.flash = "success"
    /\ Len(history) = 3
    /\ history[2].action = "status_changed"
    /\ history[2].old_value = BLOCKED /\ history[2].new_value = DONE
    /\ history[3].action = "progress_updated" /\ history[3].new_value = "100%"
    /\ tasks[1].status = DONE /\ tasks[1].completion_percentage = 100

(* C4: update_progress(task, p) with 0 < p < 100 stores p; a To Do task
   becomes In Progress with two entries appended (status_changed, then
   progress_updated); an In Progress, Blocked or Done task keeps its status
   and gets exactly one progress_updated entry. *)
C4_PartialProgress ==
    [][\A u \in SMActors, t \in DOMAIN tasks, p \in SMProgressInputs :
          (update_progress(u, t, p) /\ resp'.flash = "success" /\ 0 < p /\ p < 100) =>
              /\ tasks'[t].completion_percentage = p
              /\ IF tasks[t].status = TODO
                 THEN /\ tasks'[t].status = IN_PROGRESS
                      /\ Appended(2)
                      /\ history'[Len(history) + 1].action = "status_changed"
                      /\ history'[Len(history) + 1].task_id = t
                      /\ history'[Len(history) + 2].action = "progress_updated"
                      /\ history'[Len(history) + 2].task_id = t
                 ELSE /\ tasks'[t].status = tasks[t].status
                      /\ Appended(1)
                      /\ Last(history').action = "progress_updated"
                      /\ Last(history').task_id = t]_vars

C4_Witness ==
    /\ resp.op = "update_progress" /\ resp.flash = "success"
    /\ Len(history) = 2
    /\ Last(history).action = "progress_updated" /\ Last(history).new_value = "50%"
    /\ tasks[1].status = BLOCKED /\ tasks[1].completion_percentage = 50

(* C5: update_progress with a percentage outside 0..100 is rejected as a
   validation error and leaves the task's status, completion and history
   as they were. *)
C5_OutOfRangeRejected ==
    [][\A u \in SMActors, t \in DOMAIN tasks, p \in SMProgressInputs :
          (update_progress(u, t, p) /\ task_access_required(u, t) /\ (p < 0 \/ p > 100)) =>
              /\ resp'.flash = "danger"
              /\ resp'.error = "Percentage must be between 0 and 100"
              /\ UNCHANGED <<tasks, history>>]_vars

C5_Witness ==
    /\ resp.op = "update_progress" /\ resp.flash = "danger"
    /\ resp.error = "Percentage must be between 0 and 100"
    /\ Len(history) = 1

(* C6: update_progress accepts every integer percentage p with
   0 <= p <= 100, both bounds included: the request is applied, the stored
   completion becomes p and one progress_updated entry is logged. *)
C6_AcceptsWholeRange ==
    [][\A u \in SMActors, t \in DOMAIN tasks, p \in SMProgressInputs :
          (update_progress(u, t, p) /\ task_access_required(u, t) /\ 0 <= p /\ p <= 100) =>
              /\ resp'.flash = "success"
              /\ tasks'[t].completion_percentage = p
              /\ Last(history').action = "progress_updated"
              /\ Last(history').new_value = str_percent(p)]_vars

(* the access predicates as the specification states them *)
ProjectAccess(u, p) ==
    \/ users[u].role = ADMIN
    \/ <<u, p>> \in project_members
    \/ projects[p].created_by = u

TaskAccess(u, t) ==
    \/ users[u].role = ADMIN
    \/ tasks[t].assigned_to = u
    \/ tasks[t].created_by = u
    \/ ProjectAccess(u, tasks[t].project_id)

(* C7: for edit_task, delete_task, add_comment, reassign_task,
   update_status, log_time and update_progress, a request by an actor who
   fails the task-access predicate is refused with 403 and no task field,
   comment, time-log entry or history entry is created, changed or removed. *)
C7_RefusedWithoutAccess ==
    [][\A u \in UserIds, t \in DOMAIN tasks :
          (/\ ~TaskAccess(u, t)
           /\ \/ \E form \in TaskForms : edit_task(u, t, form)
              \/ delete_task(u, t)
              \/ \E len \in CommentInputs : add_comment(u, t, len)
              \/ \E a \in AssigneeInputs : reassign_task(u, t, a)
              \/ \E s \in StatusInputs : update_status(u, t, s)
              \/ \E h \in HoursInputs : log_time(u, t, h)
              \/ \E p \in ProgressInputs : update_progress(u, t, p)) =>
              /\ resp'.code = 403
              /\ UNCHANGED <<tasks, comments, time_logs, history>>]_vars

C7_Witness ==
    /\ resp.op = "update_status" /\ resp.code = 403
    /\ 1 \in DOMAIN tasks
    /\ users[3].role = EMPLOYEE
    /\ tasks[1].assigned_to # 3 /\ tasks[1].created_by # 3
    /\ <<3, tasks[1].project_id>> \notin project_members
    /\ ~TaskAccess(3, 1)
    /\ Len(history) = 1

(* C8: task access is granted exactly when the user is an Admin, the
   task's assignee, the task's creator, or can access the task's project;
   project access holds exactly for an Admin, a member, or the project's
   creator (member or not).  True for an Admin on any task, false for an
   Employee who is neither assignee, creator nor project member. *)
C8_AccessPredicate ==
    /\ \A u \in UserIds, p \in DOMAIN projects :
           can_access_project(u, p) <=> ProjectAccess(u, p)
    /\ \A u \in UserIds, t \in DOMAIN tasks :
           /\ task_access_required(u, t) <=> TaskAccess(u, t)
           /\ users[u].role = ADMIN => task_access_required(u, t)
           /\ (/\ users[u].role = EMPLOYEE
               /\ tasks[t].assigned_to # u /\ tasks[t].created_by # u
               /\ <<u, tasks[t].project_id>> \notin project_members
               /\ projects[tasks[t].project_id].created_by # u)
              => ~task_access_required(u, t)

C8_Witness ==
    /\ resp.op = "view_task" /\ resp.code = 403
    /\ projects[tasks[1].project_id].created_by = 3
    /\ <<3, tasks[1].project_id>> \notin project_members
    /\ tasks[1].assigned_to # 3 /\ tasks[1].created_by # 3
    /\ task_access_required(3, 1)
    /\ ~task_access_required(2, 1)

(* C9: after any sequence of accepted and rejected log_time requests,
   logged_hours(task) is the sum of hours_spent over the time-log entries
   of that task only, and 0 for a task without entries. *)
RECURSIVE SumOfTask(_, _)
SumOfTask(t, n) ==
    IF n = 0 THEN 0
    ELSE SumOfTask(t, n - 1) + (IF time_logs[n].task_id = t THEN time_logs[n].hours_spent ELSE 0)

C9_LoggedHoursIsSum ==
    \A t \in DOMAIN tasks :
        /\ logged_hours(t) = SumOfTask(t, Len(time_logs))
        /\ (\A n \in 1 .. Len(time_logs) : time_logs[n].task_id # t) => logged_hours(t) = 0

C9_Witness ==
    /\ resp.op = "log_time" /\ resp.flash = "danger"
    /\ Len(time_logs) = 3
    /\ logged_hours(1) = 70 /\ logged_hours(2) = 30

(* C10: in every reachable state remaining_hours(task) is
   max(0, estimated_hours - logged_hours(task)); it is never negative, also
   when the logged hours exceed the estimate and when no estimate is set. *)
C10_RemainingHours ==
    \A t \in DOMAIN tasks :
        LET estimate == tasks[t].estimated_hours
        IN  /\ remaining_hours(t) >= 0
            /\ estimate > logged_hours(t) => remaining_hours(t) = estimate - logged_hours(t)
            /\ estimate <= logged_hours(t) => remaining_hours(t) = 0

C10_Witness ==
    /\ tasks[1].estimated_hours = 40 /\ logged_hours(1) = 70 /\ remaining_hours(1) = 0
    /\ tasks[2].estimated_hours = NoneVal /\ logged_hours(2) = 30 /\ remaining_hours(2) = 0

(* C11: in every reachable state calculated_completion(task) is
   min(100, floor(logged_hours * 100 / estimated_hours)) when the estimate is
   positive and the stored completion_percentage otherwise; it never exceeds
   100 and does not depend on the stored completion when an estimate is set. *)
C11_CalculatedCompletion ==
    \A t \in DOMAIN tasks :
        LET estimate == tasks[t].estimated_hours
        IN  /\ calculated_completion(t) <= 100
            /\ estimate > 0 =>
                   calculated_completion(t) = Min(100, (logged_hours(t) * 100) \div estimate)
            /\ ~(estimate > 0) => calculated_completion(t) = tasks[t].completion_percentage

(* the burndown series of an answered admin dashboard request *)
Burndown == resp.op = "admin_dashboard" /\ resp.code = 200

(* C12: for every date range start <= end the burndown series has at most
   30 samples, the regular samples being ceil(rangeDays / 30) days apart,
   where rangeDays = (end - start) + 1. *)
C12_AtMost30Samples ==
    Burndown =>
        LET rangeDays == (resp.end_date - resp.start_date) + 1
            step == (rangeDays + 29) \div 30
            sampled == {resp.start_date + i * step : i \in 0 .. ((rangeDays - 1) \div step)}
                           \cup {resp.end_date}
        IN  /\ Len(resp.burndown_data) <= 30
            /\ Len(resp.burndown_data) = Cardinality(sampled)

(* C13: for every date range start <= end the last sample of the burndown
   series is the sample of the end date and the first is the sample of the
   start date; a 10-day range yields exactly 10 samples on consecutive days. *)
C13_FirstAndLastSample ==
    Burndown =>
        LET series == resp.burndown_data
            start == resp.start_date
            end == resp.end_date
        IN  /\ series # <<>>
            /\ series[1] = burndown_point(start, start)
            /\ Last(series) = burndown_point(start, end)
            /\ (end - start) + 1 = 10 =>
                   /\ Len(series) = 10
                   /\ \A i \in 1 .. 10 : series[i] = burndown_point(start, start + i - 1)

(* C14: every accepted request that creates a task, changes a stored field
   of a task, logs time or comments appends at least one history entry; no
   step changes the title, description, status, priority, assignee, project,
   due date, estimate or completion of a task while the history keeps its
   length. *)
C14_EveryChangeLogged ==
    [][/\ \A t \in DOMAIN tasks \cap DOMAIN tasks' :
              tasks'[t] # tasks[t] => Len(history') > Len(history)
       /\ (resp'.flash = "success"
              /\ resp'.op \in {"create_task", "update_status", "update_progress",
                               "reassign_task", "log_time", "add_comment"})
              => Len(history') > Len(history)]_vars

(* the history rows of task t in the history table h, in table order *)
HistoryOf(h, t) == SelectSeq(h, LAMBDA r : r.task_id = t)

(* C15: the history of a task is append-only: across every step in which
   the task continues to exist its history before the step is a prefix of
   its history after it; rows disappear only in a step that deletes their
   task or its project. *)
C15_HistoryAppendOnly ==
    [][/\ \A t \in DOMAIN tasks \cap DOMAIN tasks' :
              LET before == HistoryOf(history, t)
                  after == HistoryOf(history', t)
              IN  /\ Len(before) <= Len(after)
                  /\ SubSeq(after, 1, Len(before)) = before
       /\ Len(history') < Len(history) =>
              /\ resp'.op \in {"delete_task", "delete_project"}
              /\ DOMAIN tasks' # DOMAIN tasks]_vars

C15_Witness ==
    /\ resp.op = "delete_project" /\ resp.flash = "success"
    /\ DOMAIN tasks = {1}
    /\ Len(HistoryOf(history, 1)) = 3
    /\ Len(history) = 3

(* the positions of the history rows a step appends *)
NewRows == (Len(history) + 1) .. Len(history')

(* C16: every accepted create_task, update_status and update_progress commits
   its change of the task and its history rows in one step: a row appended in
   a step describes the change of the task made in that same step, a task
   created or changed in status or completion gets its rows in that same
   step, and a request that is not accepted leaves both tables as they
   were. *)
C16_AtomicCommit ==
    [][/\ resp'.flash # "success" => UNCHANGED dbvars
       /\ \A i \in NewRows :
              LET h == history'[i]
                  t == h.task_id
              IN  /\ t \in DOMAIN tasks'
                  /\ h.action = "created" => t \notin DOMAIN tasks
                  /\ h.action = "status_changed" =>
                         /\ t \in DOMAIN tasks
                         /\ tasks[t].status = h.old_value
                         /\ tasks'[t].status = h.new_value
                  /\ h.action = "progress_updated" =>
                         /\ t \in DOMAIN tasks
                         /\ str_percent(tasks[t].completion_percentage) = h.old_value
                         /\ str_percent(tasks'[t].completion_percentage) = h.new_value
       /\ \A t \in DOMAIN tasks' :
              (t \notin DOMAIN tasks
                   \/ tasks[t].status # tasks'[t].status
                   \/ tasks[t].completion_percentage # tasks'[t].completion_percentage)
              => \E i \in NewRows : history'[i].task_id = t]_vars

C16_Witness ==
    /\ resp.op = "update_progress" /\ resp.flash = "success"
    /\ 1 \in DOMAIN tasks
    /\ tasks[1].status = IN_PROGRESS /\ tasks[1].completion_percentage = 50
    /\ Len(history) >= 2
    /\ history[Len(history) - 1].action = "status_changed"
    /\ Last(history).action = "progress_updated"
    /\ Last(history).task_id = 1

(* the specification's isProjectManager: Admin, Manager or creator of the project *)
IsProjectManager(u, p) == is_admin(u) \/ is_manager(u) \/ projects[p].created_by = u

(* the task and its dependent rows are gone, every other row is kept *)
Deleted(t) ==
    /\ tasks' = [x \in DOMAIN tasks \ {t} |-> tasks[x]]
    /\ history' = SelectSeq(history, LAMBDA h : h.task_id # t)
    /\ time_logs' = SelectSeq(time_logs, LAMBDA l : l.task_id # t)
    /\ comments' = SelectSeq(comments, LAMBDA c : c.task_id # t)

(* C17 as stated: delete_task is carried out exactly when the actor has
   access to the task and is an Admin, a Manager or the creator of the
   task's project; otherwise it is refused and the task, its comments, time
   logs and history are unchanged. *)
C17_DeleteByProjectManager ==
    [][\A u \in UserIds, t \in DOMAIN tasks :
           delete_task(u, t) =>
               IF TaskAccess(u, t) /\ IsProjectManager(u, tasks[t].project_id)
               THEN resp'.flash = "success" /\ Deleted(t)
               ELSE resp'.code = 403 /\ UNCHANGED dbvars]_vars

(* C17 amended: delete_task is carried out exactly when the actor has access
   to the task and is an Admin, a Manager or the creator of the task;
   otherwise it is refused with 403 and the task, its comments, time logs and
   history are unchanged. *)
C17_DeleteByTaskCreator ==
    [][\A u \in UserIds, t \in DOMAIN tasks :
           delete_task(u, t) =>
               IF TaskAccess(u, t) /\ (is_admin(u) \/ is_manager(u) \/ tasks[t].created_by = u)
               THEN resp'.flash = "success" /\ Deleted(t)
               ELSE resp'.code = 403 /\ UNCHANGED dbvars]_vars

C17_Witness ==
    /\ resp.op = "delete_task" /\ resp.flash = "success"
    /\ DOMAIN tasks = {1, 2}
    /\ tasks[1].assigned_to = 3 /\ tasks[1].created_by = 2
    /\ Len(history) = 2

(* the fields of an edit, the value the form submits for each and the text
   an entry shows for a value *)
EditFields ==
    {"title", "status", "priority", "assigned_to", "project_id", "due_date", "estimated_hours"}

ValueText(f, v) ==
    IF f = "assigned_to" THEN username(v)
    ELSE IF f \in {"project_id", "due_date", "estimated_hours"} THEN ToString(v)
    ELSE v

(* C18: an accepted edit_task appends exactly one 'updated' entry for each
   field among title, status, priority, assignee, project, due date and
   estimated hours whose submitted value differs from the stored one, with
   the old and the new value, and none for an unchanged field; all submitted
   values are stored in the same step. *)
C18_OneEntryPerChangedField ==
    [][\A u \in UserIds, t \in DOMAIN tasks, form \in EditForms :
           (edit_task(u, t, form) /\ resp'.flash = "success") =>
               LET changed == {f \in EditFields : form[f] # tasks[t][f]}
               IN  /\ Len(history') = Len(history) + Cardinality(changed)
                   /\ SubSeq(history', 1, Len(history)) = history
                   /\ \A f \in changed :
                          \E i \in NewRows :
                              /\ history'[i].task_id = t
                              /\ history'[i].action = "updated"
                              /\ history'[i].field_name = f
                              /\ history'[i].old_value = ValueText(f, tasks[t][f])
                              /\ history'[i].new_value = ValueText(f, form[f])
                   /\ \A f \in EditFields : tasks'[t][f] = form[f]]_vars

(* C19: an accepted edit_task leaves the stored completion percentage as it
   was, also when it changes the status to Done or to To Do; the status
   change is logged as an 'updated' entry for the field status and no
   'status_changed' entry is written. *)
C19_EditKeepsCompletion ==
    [][\A u \in UserIds, t \in DOMAIN tasks, form \in EditForms :
           (edit_task(u, t, form) /\ resp'.flash = "success") =>
               /\ tasks'[t].completion_percentage = tasks[t].completion_percentage
               /\ \A i \in NewRows : history'[i].action = "updated"
               /\ form.status # tasks[t].status =>
                      /\ tasks'[t].status = form.status
                      /\ \E i \in NewRows :
                             /\ history'[i].task_id = t
                             /\ history'[i].field_name = "status"
                             /\ history'[i].old_value = tasks[t].status
                             /\ history'[i].new_value = form.status]_vars

C19_Witness ==
    /\ resp.op = "edit_task" /\ resp.flash = "success"
    /\ tasks[1].status = DONE /\ tasks[1].completion_percentage = 50
    /\ Last(history).action = "updated"
    /\ Last(history).field_name = "status"
    /\ Last(history).new_value = DONE

(* C20: every accepted update_status appends exactly one history entry to
   the task, with action status_changed and the old and the new status, also
   when the new status equals the old one and when the completion is forced
   to 0 or 100; update_status writes no progress_updated entry. *)
C20_OneStatusChangedEntry ==
    [][\A u \in SMActors, t \in DOMAIN tasks, s \in SMStatusInputs :
           (update_status(u, t, s) /\ resp'.flash = "success") =>
               /\ Appended(1)
               /\ Last(history') = [task_id |-> t, user_id |-> u, action |-> "status_changed",
                                    field_name |-> "status",
                                    old_value |-> tasks[t].status, new_value |-> s]
               /\ \A i \in NewRows : history'[i].action # "progress_updated"]_vars

C20_Witness ==
    /\ resp.op = "update_status" /\ resp.flash = "success"
    /\ Len(history) = 3
    /\ history[2].action = "progress_updated" /\ history[2].new_value = "50%"
    /\ history[3].action = "status_changed"
    /\ history[3].old_value = DONE /\ history[3].new_value = DONE
    /\ tasks[1].completion_percentage = 100

(* C21: update_status with a value that is not one of the four statuses is
   rejected and leaves the task's status, completion and history as they
   were; every task's status is one of the four values in every reachable
   state. *)
C21_InvalidStatusRejected ==
    /\ [](\A t \in DOMAIN tasks : tasks[t].status \in {"To Do", "In Progress", "Blocked", "Done"})
    /\ [][\A u \in StatusActors, t \in DOMAIN tasks, s \in StatusTexts :
              (update_status(u, t, s) /\ s \notin {"To Do", "In Progress", "Blocked", "Done"}) =>
                  /\ resp'.flash = "danger"
                  /\ resp'.error = "Invalid status."
                  /\ UNCHANGED <<tasks, history>>]_vars

C21_Witness ==
    /\ resp.op = "update_status" /\ resp.flash = "danger" /\ resp.error = "Invalid status."
    /\ Len(history) = 2
    /\ Last(history).action = "progress_updated"
    /\ tasks[1].status = BLOCKED /\ tasks[1].completion_percentage = 50

(* the effect of an accepted log_time: one time-log entry for the task and
   one logged_time history entry with the hours as new value and no old
   value *)
TimeLogged(u, t, h) ==
    /\ resp'.flash = "success"
    /\ time_logs' = Append(time_logs, [task_id |-> t, user_id |-> u, hours_spent |-> h])
    /\ Appended(1)
    /\ Last(history') = [task_id |-> t, user_id |-> u, action |-> "logged_time",
                         field_name |-> "hours", old_value |-> Null,
                         new_value |-> str_hours(h)]

TimeRejected ==
    /\ resp'.flash = "danger" /\ resp'.error # ""
    /\ UNCHANGED <<time_logs, history>>

(* C22 as stated: log_time accepts every hours_spent > 0, then creating
   exactly one time-log entry and appending exactly one logged_time history
   entry with new value "<hours>h" and no old value; with hours_spent <= 0
   it is rejected as a validation error and creates neither. *)
C22_AcceptsEveryPositive ==
    [][\A u \in TimeLogActors, t \in DOMAIN tasks, h \in TimeLogHours :
           (log_time(u, t, h) /\ task_access_required(u, t)) =>
               IF h > 0 THEN TimeLogged(u, t, h) ELSE TimeRejected]_vars

(* C22 amended: log_time accepts hours_spent from 0.1 to 24, both included,
   then creating exactly one time-log entry and appending exactly one
   logged_time history entry with new value "<hours>h" and no old value;
   with hours_spent below 0.1 (zero and negative included) or above 24 it is
   rejected as a validation error and creates neither. *)
C22_AcceptsTenthTo24 ==
    /\ [](\A h \in -10 .. 300 : (TimeLogForm(h) = "") <=> (1 <= h /\ h <= 240))
    /\ [][\A u \in TimeLogActors, t \in DOMAIN tasks, h \in TimeLogHours :
              (log_time(u, t, h) /\ task_access_required(u, t)) =>
                  IF 1 <= h /\ h <= 240 THEN TimeLogged(u, t, h) ELSE TimeRejected]_vars

C22_Witness ==
    /\ resp.op = "log_time" /\ resp.flash = "danger"
    /\ resp.error = "Hours must be between 0.1 and 24"
    /\ Len(time_logs) = 2 /\ time_logs[1].hours_spent = 1 /\ time_logs[2].hours_spent = 240
    /\ Len(history) = 3
    /\ history[2].action = "logged_time" /\ history[2].new_value = "0.1h"
    /\ Last(history).action = "logged_time" /\ Last(history).new_value = "24.0h"
    /\ Last(history).old_value = Null

(* C23: reassign_task(task, a) with a an existing user or nobody (unassign)
   sets the task's assignee to a and appends exactly one 'reassigned' entry
   whose old and new values are the names of the previous and the new
   assignee, "Unassigned" standing for nobody; reassigning to nobody leaves
   the task unassigned with new value "Unassigned". *)
C23_Reassign ==
    [][\A u \in UserIds, t \in DOMAIN tasks, a \in AssigneeInputs :
           (reassign_task(u, t, a) /\ task_access_required(u, t)) =>
               /\ resp'.flash = "success"
               /\ tasks'[t].assigned_to = a
               /\ Appended(1)
               /\ Last(history') =
                      [task_id |-> t, user_id |-> u, action |-> "reassigned",
                       field_name |-> "assigned_to",
                       old_value |-> IF tasks[t].assigned_to = NoneVal THEN "Unassigned"
                                     ELSE users[tasks[t].assigned_to].username,
                       new_value |-> IF a = NoneVal THEN "Unassigned"
                                     ELSE users[a].username]]_vars

(* C24: an accepted create_task yields a new task with the actor as creator,
   the submitted status (To Do when none is chosen), the submitted completion
   (0 when none is given), in a project the actor may use, and with exactly
   one history entry: action 'created', no field name, no old value and no
   new value. *)
C24_CreateTask ==
    [][\A u \in UserIds, form \in CreateForms :
           (create_task(u, form) /\ resp'.flash = "success") =>
               \E t \in DOMAIN tasks' \ DOMAIN tasks :
                   /\ DOMAIN tasks' = DOMAIN tasks \cup {t}
                   /\ \A x \in DOMAIN tasks : tasks'[x] = tasks[x]
                   /\ tasks'[t].created_by = u
                   /\ tasks'[t].status = form.status
                   /\ tasks'[t].completion_percentage =
                          (IF form.completion_percentage # NoneVal
                           THEN form.completion_percentage ELSE 0)
                   /\ tasks'[t].project_id \in DOMAIN projects
                   /\ ProjectAccess(u, tasks'[t].project_id)
                   /\ Appended(1)
                   /\ Last(history') = [task_id |-> t, user_id |-> u, action |-> "created",
                                        field_name |-> Null, old_value |-> Null,
                                        new_value |-> Null]]_vars

(* the rows of a table that belong to the tasks in gone *)
RowsOf(table, gone) == SelectSeq(table, LAMBDA r : r.task_id \in gone)

(* C25: in every reachable state every task belongs to an existing project
   and every comment, time-log entry and history entry belongs to an
   existing task; deleting a task removes all its comments, time logs and
   history, deleting a project removes all its tasks together with theirs,
   and the rows of the other tasks stay. *)
C25_ReferentialIntegrity ==
    /\ [](/\ \A t \in DOMAIN tasks : tasks[t].project_id \in DOMAIN projects
          /\ \A i \in 1 .. Len(comments) : comments[i].task_id \in DOMAIN tasks
          /\ \A i \in 1 .. Len(time_logs) : time_logs[i].task_id \in DOMAIN tasks
          /\ \A i \in 1 .. Len(history) : history[i].task_id \in DOMAIN tasks)
    /\ [][/\ \A u \in IntegrityActors, t \in DOMAIN tasks :
                 (delete_task(u, t) /\ resp'.flash = "success") =>
                     /\ t \notin DOMAIN tasks'
                     /\ RowsOf(comments', {t}) = <<>>
                     /\ RowsOf(time_logs', {t}) = <<>>
                     /\ RowsOf(history', {t}) = <<>>
                     /\ \A x \in DOMAIN tasks \ {t} :
                            /\ x \in DOMAIN tasks' /\ tasks'[x] = tasks[x]
                            /\ RowsOf(comments', {x}) = RowsOf(comments, {x})
                            /\ RowsOf(time_logs', {x}) = RowsOf(time_logs, {x})
                            /\ RowsOf(history', {x}) = RowsOf(history, {x})
          /\ \A u \in IntegrityActors, p \in DOMAIN projects :
                 (delete_project(u, p) /\ resp'.flash = "success") =>
                     LET gone == {t \in DOMAIN tasks : tasks[t].project_id = p}
                     IN  /\ p \notin DOMAIN projects'
                         /\ DOMAIN tasks' = DOMAIN tasks \ gone
                         /\ RowsOf(comments', gone) = <<>>
                         /\ RowsOf(time_logs', gone) = <<>>
                         /\ RowsOf(history', gone) = <<>>
                         /\ \A x \in DOMAIN tasks \ gone :
                                /\ tasks'[x] = tasks[x]
                                /\ RowsOf(comments', {x}) = RowsOf(comments, {x})
                                /\ RowsOf(time_logs', {x}) = RowsOf(time_logs, {x})
                                /\ RowsOf(history', {x}) = RowsOf(history, {x})]_vars

C25_Witness ==
    /\ resp.op = "delete_project" /\ resp.flash = "success"
    /\ DOMAIN projects = {2}
    /\ DOMAIN tasks = {2}
    /\ Len(comments) = 1 /\ comments[1].task_id = 2
    /\ Len(time_logs) = 1 /\ time_logs[1].task_id = 2
    /\ Len(history) = 3

(* C26: conflicting requests are rejected without changing state:
   remove_member aimed at the project's creator leaves the members of the
   project as they were, whoever the actor is, and reject_user aimed at an
   approved account leaves that user in place, not deleted and still
   approved. *)
C26_ConflictsRejected ==
    [][/\ \A u \in MemberActors, p \in DOMAIN projects :
              remove_member(u, p, projects[p].created_by) =>
                  /\ resp'.flash # "success"
                  /\ UNCHANGED dbvars
       /\ \A u \in AdminActors, x \in DOMAIN users :
              (reject_user(u, x) /\ users[x].is_approved) =>
                  /\ resp'.flash # "success"
                  /\ x \in DOMAIN users' /\ users'[x] = users[x]
                  /\ UNCHANGED dbvars]_vars

C26_Witness ==
    /\ resp.op = "remove_member" /\ resp.flash = "danger"
    /\ resp.error = "Cannot remove the project owner."
    /\ project_members = {<<2, 1>>, <<3, 1>>, <<2, 2>>, <<4, 1>>}
    /\ projects[1].created_by = 2
    /\ users[4].is_approved

(* C27: when two mutating requests on one task overlap, both having loaded
   the task before either commits, neither is rejected: both commit, the
   history contains the entries of both, and the stored fields of the task
   are those written by the request that commits last. *)
C27_LastWriteWins ==
    [][\A r \in DOMAIN sessions :
           (commit(r) /\ request_valid(sessions[r])) =>
               LET s == sessions[r]
                   t == s.task_id
               IN  /\ resp'.flash = "success"
                   /\ history' = history \o request_rows(s)
                   /\ s.op = "update_status" => tasks'[t].status = s.arg
                   /\ (s.op = "update_status" /\ s.arg = DONE) =>
                          tasks'[t].completion_percentage = 100
                   /\ (s.op = "update_status" /\ s.arg = TODO) =>
                          tasks'[t].completion_percentage = 0
                   /\ s.op = "update_progress" =>
                          tasks'[t].completion_percentage = s.arg]_vars

(* C28: with requests handled one at a time, the history entries of a task
   that carry a status (status_changed entries and 'updated' entries of the
   field status) form a chain: the old value of each is the status the task
   had just before it (the new value of the previous such entry, or the
   status given at creation when there is none), and the new value of the
   most recent one is the stored status. *)
StatusRows(h, t) ==
    SelectSeq(h, LAMBDA r : /\ r.task_id = t
                            /\ r.field_name = "status"
                            /\ r.action \in {"status_changed", "updated"})

C28_StatusChain ==
    /\ [](\A t \in DOMAIN tasks :
              LET rows == StatusRows(history, t)
              IN  /\ \A i \in 1 .. (Len(rows) - 1) : rows[i + 1].old_value = rows[i].new_value
                  /\ rows # <<>> => Last(rows).new_value = tasks[t].status)
    /\ [][\A t \in DOMAIN tasks' :
              LET old == StatusRows(history, t)
                  new == StatusRows(history', t)
              IN  IF t \notin DOMAIN tasks THEN new = <<>>
                  ELSE IF Len(new) = Len(old) THEN tasks'[t].status = tasks[t].status
                  ELSE new[Len(old) + 1].old_value = tasks[t].status]_vars

C28_Witness ==
    LET rows == StatusRows(history, 1)
    IN  /\ Len(rows) = 2
        /\ rows[1].action = "status_changed"
        /\ rows[2].action = "updated"
        /\ rows[1].old_value # rows[1].new_value
        /\ rows[2].new_value = tasks[1].status
        /\ resp.op = "edit_task"

(* C29: for every sample of the burndown series, dated d, provided no task
   was updated before the day of its creation, remaining + completed is the
   number of tasks created in [start, d]: each such task is counted once,
   as completed when it is Done with an update date <= d and as remaining
   otherwise, and a task created before start is counted in neither. *)
SampleDay(i) ==
    LET start == resp.start_date
        end == resp.end_date
        step == Max(1, ((end - start) + 1) \div 30)
    IN  IF start + (i - 1) * step <= end THEN start + (i - 1) * step ELSE end

CreatedIn(start, d) ==
    {t \in DOMAIN tasks : start <= tasks[t].created_at /\ tasks[t].created_at <= d}

CompletedBy(t, d) == tasks[t].status = DONE /\ tasks[t].updated_at <= d

C29_SamplesPartitionCreated ==
    (Burndown /\ \A t \in DOMAIN tasks : tasks[t].updated_at >= tasks[t].created_at) =>
        \A i \in 1 .. Len(resp.burndown_data) :
            LET d == SampleDay(i)
                created == CreatedIn(resp.start_date, d)
                sample == resp.burndown_data[i]
            IN  /\ sample.date = strftime_b_d(d)
                /\ sample.completed = Cardinality({t \in created : CompletedBy(t, d)})
                /\ sample.remaining = Cardinality({t \in created : ~CompletedBy(t, d)})
                /\ sample.remaining + sample.completed = Cardinality(created)

C29_Witness ==
    /\ Burndown
    /\ resp.start_date = 5
    /\ tasks[1].status = DONE /\ tasks[1].created_at = 8 /\ tasks[1].updated_at = 11
    /\ \E i, j \in 1 .. Len(resp.burndown_data) :
           /\ i < j
           /\ resp.burndown_data[i].remaining = 1 /\ resp.burndown_data[i].completed = 0
           /\ resp.burndown_data[j].remaining = 0 /\ resp.burndown_data[j].completed = 1

(* C30: with requests handled one at a time and an active Admin present at
   the start, an active user with role Admin exists after every sequence of
   change-role, toggle-status, delete-user and reject-user requests: an
   accepted request of these kinds has an active Admin as its actor and
   leaves the actor's row as it was. *)
ActiveAdmins == {u \in DOMAIN users : users[u].role = ADMIN /\ users[u].is_active}

ActorKept(u) ==
    /\ resp'.flash = "success" =>
           /\ u \in ActiveAdmins
           /\ u \in DOMAIN users' /\ users'[u] = users[u]
    /\ resp'.flash # "success" => users' = users

C30_ActiveAdminRemains ==
    /\ [](ActiveAdmins # {})
    /\ [][\A u \in AdminActors, x \in AdminTargets :
              /\ toggle_user_status(u, x) => ActorKept(u)
              /\ delete_user(u, x) => ActorKept(u)
              /\ reject_user(u, x) => ActorKept(u)
              /\ \A r \in RoleInputs : change_user_role(u, x, r) => ActorKept(u)]_vars

C30_Witness ==
    /\ resp.op = "delete_user" /\ resp.flash = "success"
    /\ 1 \notin DOMAIN users
    /\ ActiveAdmins = {2}

====
